---- MODULE Spec2Model ----
(***************************************************************************)
(* Model of the timetable cell parser of ut-course-simulator               *)
(* (src/src/crawler/course_crawler.py, parse_course_string).               *)
(*                                                                         *)
(* A Python str is a sequence of characters.  Every character is one token *)
(* (a TLA+ string); CJK characters are written by their romanisation:      *)
(*   "yi" er san si wu liu ri   the day glyphs U+4E00 U+4E8C U+4E09 U+56DB *)
(*                              U+4E94 U+516D U+65E5                       *)
(*   "dan" "shuang" "zhou"      U+55AE U+96D9 U+9031 (odd / even / week)   *)
(*   "shi" "jian" "wei" "ding"  U+6642 U+9593 U+672A U+5B9A (time undecided)*)
(*   "jiao" "shi4"              U+6559 U+5BA4 (class room)                 *)
(*   "wu2"                      U+7121 (none)                              *)
(*   "dun"                      U+3001 (ideographic comma)                 *)
(*   "FL" "FR"                  U+FF08 U+FF09 (full-width parentheses)     *)
(***************************************************************************)
EXTENDS Integers, Sequences, FiniteSets, TLC

\* ------------------------------------------------------------------------
\* Characters
\* ------------------------------------------------------------------------

\* ord(c): the Unicode code point, which orders str values in sorted().
CodePoint(c) ==
  CASE c = "\n" -> 10
    [] c = " " -> 32
    [] c = "(" -> 40
    [] c = ")" -> 41
    [] c = "," -> 44
    [] c = "-" -> 45
    [] c = "/" -> 47
    [] c = "0" -> 48
    [] c = "1" -> 49
    [] c = "2" -> 50
    [] c = "3" -> 51
    [] c = "4" -> 52
    [] c = "5" -> 53
    [] c = "6" -> 54
    [] c = "7" -> 55
    [] c = "8" -> 56
    [] c = "9" -> 57
    [] c = "A" -> 65
    [] c = "B" -> 66
    [] c = "X" -> 88
    [] c = "Y" -> 89
    [] c = "dun" -> 12289
    [] c = "san" -> 19977
    [] c = "yi" -> 19968
    [] c = "er" -> 20108
    [] c = "wu" -> 20116
    [] c = "liu" -> 20845
    [] c = "dan" -> 21934
    [] c = "si" -> 22235
    [] c = "ding" -> 23450
    [] c = "shi4" -> 23460
    [] c = "jiao" -> 25945
    [] c = "shi" -> 26178
    [] c = "ri" -> 26085
    [] c = "wei" -> 26410
    [] c = "wu2" -> 28961
    [] c = "zhou" -> 36913
    [] c = "shuang" -> 38617
    [] c = "jian" -> 38291
    [] c = "FL" -> 65288
    [] c = "FR" -> 65289

\* str.isspace(): what str.strip() removes and the regex class \s matches.
IsSpace(c) == c \in {" ", "\n"}

\* the regex class \d
IsDigit(c) == c \in {"0", "1", "2", "3", "4", "5", "6", "7", "8", "9"}

DigitValue(c) == CodePoint(c) - CodePoint("0")

\* the string literals of the source
ODD_MARKER == <<"(", "dan", "zhou", ")">>
EVEN_MARKER == <<"(", "shuang", "zhou", ")">>
TIME_UNDECIDED == <<"shi", "jian", "wei", "ding">>
ROOM_UNDECIDED == <<"jiao", "shi4", "wei", "ding">>
NO_TEACHER == <<"wu2">>
JOINER == <<"dun">>

\* ------------------------------------------------------------------------
\* str operations
\* ------------------------------------------------------------------------

\* s[i:j] with 1-based inclusive bounds; empty when j < i
Slice(s, i, j) == IF j < i THEN <<>> ELSE SubSeq(s, i, j)

\* s[i:] (1-based)
From(s, i) == Slice(s, i, Len(s))

\* s.startswith(pat, i-1)
StartsWithAt(s, i, pat) ==
  /\ i >= 1
  /\ i + Len(pat) - 1 <= Len(s)
  /\ \A k \in 1..Len(pat) : s[i + k - 1] = pat[k]

\* s.find(pat, i-1) + 1: the first position >= i where pat occurs, or 0
RECURSIVE Find(_, _, _)
Find(s, pat, i) ==
  IF i + Len(pat) - 1 > Len(s) THEN 0
  ELSE IF StartsWithAt(s, i, pat) THEN i
  ELSE Find(s, pat, i + 1)

\* pat in s
Contains(s, pat) == Find(s, pat, 1) # 0

\* s.replace(pat, rep): every non-overlapping occurrence, left to right
RECURSIVE Replace(_, _, _)
Replace(s, pat, rep) ==
  LET p == Find(s, pat, 1) IN
  IF p = 0 THEN s
  ELSE Slice(s, 1, p - 1) \o rep \o Replace(From(s, p + Len(pat)), pat, rep)

\* s.lstrip(chars) / s.rstrip(chars) / s.strip(chars) for a set of characters
RECURSIVE LStripSet(_, _)
LStripSet(s, chars) ==
  IF s # <<>> /\ Head(s) \in chars THEN LStripSet(Tail(s), chars) ELSE s

RECURSIVE RStripSet(_, _)
RStripSet(s, chars) ==
  IF s # <<>> /\ s[Len(s)] \in chars
  THEN RStripSet(Slice(s, 1, Len(s) - 1), chars)
  ELSE s

StripSet(s, chars) == RStripSet(LStripSet(s, chars), chars)

\* s.strip(): whitespace from both ends
Strip(s) == StripSet(s, {" ", "\n"})

\* s.split(sep) for one character, and re.split on a one-character class:
\* the pieces between the separators, empty pieces included
RECURSIVE SplitOn(_, _)
SplitOn(s, seps) ==
  IF \A k \in 1..Len(s) : s[k] \notin seps THEN <<s>>
  ELSE LET p == CHOOSE k \in 1..Len(s) :
                  /\ s[k] \in seps
                  /\ \A j \in 1..(k - 1) : s[j] \notin seps
       IN <<Slice(s, 1, p - 1)>> \o SplitOn(From(s, p + 1), seps)

\* [f(x) for x in xs if keep(x)] with f = strip, keep = non-empty after strip
RECURSIVE StrippedNonEmpty(_)
StrippedNonEmpty(xs) ==
  IF xs = <<>> THEN <<>>
  ELSE (IF Strip(Head(xs)) # <<>> THEN <<Strip(Head(xs))>> ELSE <<>>)
         \o StrippedNonEmpty(Tail(xs))

\* int(s) for a non-empty run of digits; int("") raises ValueError
RECURSIVE IntOf(_)
IntOf(s) ==
  IF s = <<>> THEN 0
  ELSE 10 * IntOf(Slice(s, 1, Len(s) - 1)) + DigitValue(s[Len(s)])

\* str < str: lexicographic by code point
RECURSIVE StrLess(_, _)
StrLess(a, b) ==
  IF b = <<>> THEN FALSE
  ELSE IF a = <<>> THEN TRUE
  ELSE IF CodePoint(Head(a)) # CodePoint(Head(b))
       THEN CodePoint(Head(a)) < CodePoint(Head(b))
  ELSE StrLess(Tail(a), Tail(b))

\* ------------------------------------------------------------------------
\* The enumerations and tables of the source
\* ------------------------------------------------------------------------

\* WeekPatternEnum
EVERY_WEEK == "every_week"
ODD_WEEKS == "odd_weeks"
EVEN_WEEKS == "even_weeks"

\* the keys of DAY_OF_WEEK_MAP, which are the regex class of the day glyph
DayGlyphs == {"yi", "er", "san", "si", "wu", "liu", "ri"}

\* DAY_OF_WEEK_MAP.get(day_char): None (the empty tuple) for a missing key
DAY_OF_WEEK_MAP(day_char) ==
  CASE day_char = "yi" -> <<1>>
    [] day_char = "er" -> <<2>>
    [] day_char = "san" -> <<3>>
    [] day_char = "si" -> <<4>>
    [] day_char = "wu" -> <<5>>
    [] day_char = "liu" -> <<6>>
    [] day_char = "ri" -> <<7>>
    [] OTHER -> <<>>

\* Optional values: None is the empty tuple, a value v is <<v>>.
None == <<>>

\* float("inf") and float("-inf") beside the int values of the accumulators
PosInf == [inf |-> "+", v |-> 0]
NegInf == [inf |-> "-", v |-> 0]
Fin(n) == [inf |-> "", v |-> n]

\* a < b over int and the two infinities
FloatLess(a, b) ==
  IF a.inf = "-" THEN b.inf # "-"
  ELSE IF a.inf = "+" THEN FALSE
  ELSE b.inf = "+" \/ (b.inf = "" /\ a.v < b.v)

\* Fault: the accumulator overwritten by every match.
PyMin_last(a, b) == b

\* min(a, b): b when b < a, else a.  max(a, b): b when b > a, else a.
PyMin(a, b) == IF FloatLess(b, a) THEN b ELSE a

PyMax(a, b) == IF FloatLess(a, b) THEN b ELSE a

\* ------------------------------------------------------------------------
\* The regular expressions of parse_course_string
\* ------------------------------------------------------------------------

\* re.split(r"[/<dun>\s]*<time undecided>", s, 1)[0]: the text before the
\* leftmost match, which starts at the run of separators that precedes the
\* first occurrence of the marker; s itself when the marker does not occur.
SplitBeforeUndecided(s) ==
  LET p == Find(s, TIME_UNDECIDED, 1) IN
  IF p = 0 THEN s
  ELSE RStripSet(Slice(s, 1, p - 1), {"/", "dun", " ", "\n"})

\* re.search(r"[(<FL>](.*?)[)<FR>]", s): None, or <<group(1)>>.  The match
\* starts at the leftmost opening parenthesis that is followed, before any
\* newline ("." does not match one), by a closing parenthesis; the lazy
\* group ends at the first closing parenthesis.
GroupEndFrom(s, i) ==
  LET closes == {j \in (i + 1)..Len(s) : s[j] \in {")", "FR"}} IN
  IF closes = {} THEN 0
  ELSE LET j == CHOOSE x \in closes : \A y \in closes : x <= y IN
       IF \E k \in (i + 1)..(j - 1) : s[k] = "\n" THEN 0 ELSE j

loc_search(s) ==
  LET opens == {i \in 1..Len(s) : s[i] \in {"(", "FL"} /\ GroupEndFrom(s, i) # 0} IN
  IF opens = {} THEN None
  ELSE LET i == CHOOSE x \in opens : \A y \in opens : x <= y IN
       <<Slice(s, i + 1, GroupEndFrom(s, i) - 1)>>

\* re.match(r"(.+?)\s*\(", line): 0 for no match, else end(1), the length of
\* the lazy group: the least k >= 1 such that the first k characters hold no
\* newline and line[k:] is a run of whitespace followed by "(".
SpaceThenParen(s, k) ==
  \E m \in (k + 1)..Len(s) :
    /\ s[m] = "("
    /\ \A j \in (k + 1)..(m - 1) : IsSpace(s[j])

teacher_match(line) ==
  LET ends == {k \in 1..Len(line) :
                 /\ \A j \in 1..k : line[j] # "\n"
                 /\ SpaceThenParen(line, k)} IN
  IF ends = {} THEN 0
  ELSE CHOOSE k \in ends : \A y \in ends : k <= y

\* re.sub(r"\s+\d+$", "", name): the text before the leftmost place from
\* which a run of whitespace and then a run of digits reach the end.
SpaceDigitsToEnd(s, i) ==
  \E d \in (i + 1)..Len(s) :
    /\ \A j \in i..(d - 1) : IsSpace(s[j])
    /\ \A j \in d..Len(s) : IsDigit(s[j])

strip_trailing_number(s) ==
  LET starts == {i \in 1..Len(s) : SpaceDigitsToEnd(s, i)} IN
  IF starts = {} THEN s
  ELSE Slice(s, 1, (CHOOSE i \in starts : \A y \in starts : i <= y) - 1)

\* The length of the maximal run of characters of a class that starts at i.
RECURSIVE RunLen(_, _, _)
RunLen(s, i, class) ==
  IF i <= Len(s) /\ s[i] \in class THEN 1 + RunLen(s, i + 1, class) ELSE 0

Digits == {"0", "1", "2", "3", "4", "5", "6", "7", "8", "9"}

\* (.*?)\) after the "(" at position o: the position of the first ")" in
\* the same line, or 0
GroupEndParen(s, o) ==
  LET closes == {j \in (o + 1)..Len(s) : s[j] = ")"} IN
  IF closes = {} THEN 0
  ELSE LET j == CHOOSE x \in closes : \A y \in closes : x <= y IN
       IF \E k \in (o + 1)..(j - 1) : s[k] = "\n" THEN 0 ELSE j

\* pattern = \(([day glyph])\)\s*(\d+)(?:-(\d+))?\((.*?)\) tried at position
\* i: None, or <<[the four groups, stop]>> with stop the position after the
\* match.  \d+ is greedy, and giving digits back never helps: what follows
\* the digits must be "-" or "(".  An absent third group reads "".
pattern_at(s, i) ==
  IF ~(i + 2 <= Len(s) /\ s[i] = "(" /\ s[i + 1] \in DayGlyphs /\ s[i + 2] = ")")
  THEN None
  ELSE
    LET p1 == i + 3 + RunLen(s, i + 3, {" ", "\n"})
        n1 == RunLen(s, p1, Digits)
        a == p1 + n1
        ranged == a <= Len(s) /\ s[a] = "-" /\ RunLen(s, a + 1, Digits) > 0
        n2 == IF ranged THEN RunLen(s, a + 1, Digits) ELSE 0
        o == IF ranged THEN a + 1 + n2 ELSE a
        c == IF o <= Len(s) /\ s[o] = "(" THEN GroupEndParen(s, o) ELSE 0
    IN IF n1 = 0 \/ c = 0 THEN None
       ELSE <<[day_char |-> s[i + 1],
               start_p_str |-> Slice(s, p1, a - 1),
               end_p_str |-> IF ranged THEN Slice(s, a + 1, a + n2) ELSE <<>>,
               location |-> Slice(s, o + 1, c - 1),
               stop |-> c + 1]>>

\* pattern.findall(s) from position i on: the groups of the non-overlapping
\* matches, leftmost first
RECURSIVE pattern_findall_from(_, _)
pattern_findall_from(s, i) ==
  IF i > Len(s) THEN <<>>
  ELSE LET m == pattern_at(s, i) IN
       IF m = None THEN pattern_findall_from(s, i + 1)
       ELSE <<[day_char |-> m[1].day_char,
               start_p_str |-> m[1].start_p_str,
               end_p_str |-> m[1].end_p_str,
               location |-> m[1].location]>>
            \o pattern_findall_from(s, m[1].stop)

pattern_findall(s) == pattern_findall_from(s, 1)

\* ------------------------------------------------------------------------
\* The pieces of parse_course_string
\* ------------------------------------------------------------------------

\* int(s) raises ValueError for a str that is no number: of the strings the
\* regex groups can hold (runs of digits), the empty one
IntRaises(s) == s = <<>>

\* int(x) raises OverflowError for an infinity
FloatIntRaises(x) == x.inf # ""

\* Fault: the even marker is looked for first.
detect_week_pattern_even_first(s) ==
  IF Contains(s, EVEN_MARKER) THEN EVEN_WEEKS
  ELSE IF Contains(s, ODD_MARKER) THEN ODD_WEEKS
  ELSE EVERY_WEEK

\* Fault: the elif branch removes the even marker and forgets the pattern.
detect_week_pattern_even_dropped(s) ==
  IF Contains(s, ODD_MARKER) THEN ODD_WEEKS ELSE EVERY_WEEK

\* The week pattern of the cell: "(odd)" is looked for first.
detect_week_pattern(s) ==
  IF Contains(s, ODD_MARKER) THEN ODD_WEEKS
  ELSE IF Contains(s, EVEN_MARKER) THEN EVEN_WEEKS
  ELSE EVERY_WEEK

\* Fault: the marker is deleted, its neighbours joined.
remove_week_marker_glued(s) ==
  IF Contains(s, ODD_MARKER) THEN Strip(Replace(s, ODD_MARKER, <<>>))
  ELSE IF Contains(s, EVEN_MARKER) THEN Strip(Replace(s, EVEN_MARKER, <<>>))
  ELSE s

\* clean_string after the week marker is taken out: only the marker that
\* decided the pattern is replaced (by a blank), then the text is stripped.
remove_week_marker(s) ==
  IF Contains(s, ODD_MARKER) THEN Strip(Replace(s, ODD_MARKER, <<" ">>))
  ELSE IF Contains(s, EVEN_MARKER) THEN Strip(Replace(s, EVEN_MARKER, <<" ">>))
  ELSE s

\* Fault: the marker is looked for at the start of the text only.
is_time_undecided_at_start(s) == StartsWithAt(s, 1, TIME_UNDECIDED)

\* "<time undecided>" in clean_string
is_time_undecided(s) == Contains(s, TIME_UNDECIDED)

\* teachers of the time-undecided branch
undecided_teachers(s) ==
  LET teacher_part == SplitBeforeUndecided(s)
      cleaned_teacher_names == StripSet(teacher_part, {"dun", "/", ",", " "})
      names == StrippedNonEmpty(SplitOn(cleaned_teacher_names, {"dun", ","}))
  IN IF names # <<>> THEN names ELSE <<NO_TEACHER>>

\* Fault: the content of the group is taken as it is.
undecided_location_untrimmed(s) ==
  LET loc_match == loc_search(s) IN
  IF loc_match # None THEN loc_match[1] ELSE ROOM_UNDECIDED

\* location of the time-undecided branch
undecided_location(s) ==
  LET loc_match == loc_search(s) IN
  IF loc_match # None THEN Strip(loc_match[1]) ELSE ROOM_UNDECIDED

\* lines = [line.strip() for line in clean_string.split("\n") if line.strip()]
split_lines(s) == StrippedNonEmpty(SplitOn(s, {"\n"}))

\* teacher_name of a line whose prefix group ends at k
teacher_name_of(line, k) == Strip(strip_trailing_number(Slice(line, 1, k)))

\* Fault: the remainder taken one character too far (after the parenthesis).
time_loc_part_of_shifted(line, k) == Strip(From(line, k + 2))

\* time_loc_part of a line whose prefix group ends at k
time_loc_part_of(line, k) == Strip(From(line, k + 1))

\* Fault: int(end_p_str) without the test for an absent range.
has_range_unchecked(match) == TRUE

\* "if end_p_str": the match has a written range
has_range(match) == match.end_p_str # <<>>

\* end_period = int(end_p_str) if end_p_str else start_period
end_period_of(match, start_period) ==
  IF has_range(match) THEN IntOf(match.end_p_str) ELSE start_period

\* the exception the two int() calls of one match raise, "" for none
match_raises(match) ==
  IF IntRaises(match.start_p_str) \/ (has_range(match) /\ IntRaises(match.end_p_str))
  THEN "ValueError" ELSE ""

\* Fault: the test "is None" inverted, so that the day is never set.
next_day_of_week_inverted(day, day_char) ==
  IF day # None THEN DAY_OF_WEEK_MAP(day_char) ELSE day

\* Fault: the day assigned at every match, so that the last match wins.
next_day_of_week_last(day, day_char) == DAY_OF_WEEK_MAP(day_char)

\* "if day_of_week is None: day_of_week = DAY_OF_WEEK_MAP.get(day_char)"
next_day_of_week(day, day_char) ==
  IF day = None THEN DAY_OF_WEEK_MAP(day_char) ELSE day

\* The body of "for match in matches" for one match; acc holds the
\* accumulators, acc.exc the exception raised so far ("" for none).
match_step(acc, match) ==
  LET start_period == IntOf(match.start_p_str)
      end_period == end_period_of(match, start_period)
  IN IF acc.exc # "" THEN acc
     ELSE IF match_raises(match) # ""
          THEN [acc EXCEPT !.day_of_week = next_day_of_week(@, match.day_char),
                           !.exc = match_raises(match)]
     ELSE [day_of_week |-> next_day_of_week(acc.day_of_week, match.day_char),
           min_start_period |-> PyMin(acc.min_start_period, Fin(start_period)),
           max_end_period |-> PyMax(acc.max_end_period, Fin(end_period)),
           all_locations |-> acc.all_locations \cup {Strip(match.location)},
           exc |-> ""]

RECURSIVE match_loop(_, _)
match_loop(acc, matches) ==
  IF matches = <<>> THEN acc
  ELSE match_loop(match_step(acc, Head(matches)), Tail(matches))

\* list(dict.fromkeys(xs)): the first occurrence of every element, in order
RECURSIVE dict_fromkeys(_)
dict_fromkeys(xs) ==
  IF xs = <<>> THEN <<>>
  ELSE LET init == dict_fromkeys(Slice(xs, 1, Len(xs) - 1))
           last == xs[Len(xs)]
       IN IF \E k \in 1..Len(init) : init[k] = last THEN init
          ELSE Append(init, last)

\* sorted(xs) for a list of distinct str: insertion sort by StrLess
\* Fault: the comparison of the sort inverted (descending order).
RECURSIVE insert_sorted_descending(_, _)
insert_sorted_descending(x, ys) ==
  IF ys = <<>> THEN <<x>>
  ELSE IF StrLess(x, Head(ys))
       THEN <<Head(ys)>> \o insert_sorted_descending(x, Tail(ys))
  ELSE <<x>> \o ys

RECURSIVE insert_sorted(_, _)
insert_sorted(x, ys) ==
  IF ys = <<>> THEN <<x>>
  ELSE IF StrLess(Head(ys), x) THEN <<Head(ys)>> \o insert_sorted(x, Tail(ys))
  ELSE <<x>> \o ys

\* Fault: the list is left in iteration order.
sorted_omitted(xs) == xs

RECURSIVE sorted(_)
sorted(xs) ==
  IF xs = <<>> THEN <<>> ELSE insert_sorted(Head(xs), sorted(Tail(xs)))

\* sep.join(xs)
RECURSIVE join(_, _)
join(sep, xs) ==
  IF xs = <<>> THEN <<>>
  ELSE IF Len(xs) = 1 THEN xs[1]
  ELSE xs[1] \o sep \o join(sep, Tail(xs))

\* The orders in which iterating a set of str can yield its elements (the
\* order depends on the hash seed of the process).
IterationOrders(S) ==
  {f \in [1..Cardinality(S) -> S] : \A i, j \in 1..Cardinality(S) : f[i] = f[j] => i = j}

\* Fault: the rooms joined as the set yields them.
location_str_unsorted(order) == join(JOINER, order)

\* location_str = "<dun>".join(sorted(all_locations)), for one iteration order
location_str_of(order) == join(JOINER, sorted(order))

\* "min_start_period != float('inf')" and "max_end_period != float('-inf')"
start_is_set(min_p) == min_p # PosInf

end_is_set(max_p) == max_p # NegInf

\* final_start / final_end: None for an untouched accumulator
final_start_of(min_p) == IF start_is_set(min_p) THEN <<min_p.v>> ELSE None

final_end_of(max_p) == IF end_is_set(max_p) THEN <<max_p.v>> ELSE None

\* the exception the two int() calls of the finalization raise, "" for none
final_raises(min_p, max_p) ==
  IF \/ start_is_set(min_p) /\ FloatIntRaises(min_p)
     \/ end_is_set(max_p) /\ FloatIntRaises(max_p)
  THEN "OverflowError" ELSE ""

\* Fault: the fallback taken for an empty text instead of a non-empty one.
nothing_extracted_inverted(teachers, locations, text) ==
  teachers = <<>> /\ locations = {} /\ text = <<>>

\* "if not all_teachers and not all_locations and clean_string"
nothing_extracted(teachers, locations, text) ==
  teachers = <<>> /\ locations = {} /\ text # <<>>

\* the returned tuple
Tuple(teachers, day, start, end, location, week) ==
  [teachers |-> teachers, dayOfWeek |-> day, startPeriod |-> start,
   endPeriod |-> end, location |-> location, weekPattern |-> week]

\* ------------------------------------------------------------------------
\* The inputs: raw cell texts
\* ------------------------------------------------------------------------

\* the longest free text, in fragments, and the most lines of a cell
MaxFrags == 3
MaxLines == 2

\* one time entry "(day)period(room)"
Entry(day, period, room) == <<"(", day, ")">> \o period \o <<"(">> \o room \o <<")">>

\* The pieces free texts are made of: single characters and the markers.
Fragments ==
  { <<"A">>, <<"B">>, <<" ">>, <<"\n">>, <<"(">>, <<")">>, <<"2">>, <<"-">>,
    <<"dun">>, <<",">>, <<"/">>, <<"(", "yi", ")">>,
    ODD_MARKER, EVEN_MARKER, TIME_UNDECIDED }

\* Lines as the timetable site writes them, and lines that are off the grammar.
LinePool ==
  { <<"A">> \o Entry("yi", <<"3">>, <<"X">>),
    <<"B">> \o Entry("er", <<"5", "-", "2">>, <<"Y">>),
    <<"A">> \o Entry("san", <<"2", "-", "5">>, <<"Y">>) \o Entry("yi", <<"3">>, <<"X">>),
    <<"B">>,
    Entry("er", <<"2">>, <<"X">>),
    <<"A", " ", "1", "2">> \o Entry("ri", <<" ", "1", "0">>, <<"X">>),
    <<"A", "dun", "A">> \o TIME_UNDECIDED \o <<"(", "Y", ")">>,
    <<"B">> \o TIME_UNDECIDED,
    ODD_MARKER,
    EVEN_MARKER \o <<"A">> \o Entry("yi", <<"3">>, <<"X">>) \o ODD_MARKER,
    <<"(", "X", ")">>,
    <<"A", " ", "/", " ">> \o TIME_UNDECIDED \o <<"FL">> \o ROOM_UNDECIDED \o <<"FR">>,
    <<"B", "2">> \o EVEN_MARKER \o Entry("wu", <<"4">>, <<" ", "Y", " ">>),
    <<"A", "(", "B", ")">>,
    <<"A", " ", "1">> \o Entry("yi", <<"2", "-", "5">>, <<" ", "Y">>),
    <<"A", "/">>,
    <<",">> \o TIME_UNDECIDED,
    <<"B">> \o TIME_UNDECIDED \o <<"(", " ", "Y", " ", ")">> }

RECURSIVE Flatten(_)
Flatten(xs) == IF xs = <<>> THEN <<>> ELSE Head(xs) \o Flatten(Tail(xs))

SeqsUpTo(S, n) == UNION {[1..k -> S] : k \in 0..n}

FreeInputs == {Flatten(fs) : fs \in SeqsUpTo(Fragments, MaxFrags)}

CellInputs == {join(<<"\n">>, ls) : ls \in SeqsUpTo(LinePool, MaxLines)}

Inputs == FreeInputs \cup CellInputs

\* the texts that hold the lines of s in another order
Reorderings(s) ==
  LET ls == SplitOn(s, {"\n"})
      n == Len(ls)
      perms == {f \in [1..n -> 1..n] : \A i, j \in 1..n : f[i] = f[j] => i = j}
  IN {join(<<"\n">>, [i \in 1..n |-> ls[f[i]]]) : f \in perms}

\* ------------------------------------------------------------------------
\* parse_course_string as a state machine: two calls, the second on a
\* reordering of the lines of the first call's argument
\* ------------------------------------------------------------------------

VARIABLES
  raw,               \* the argument of the first call
  raw_string,        \* the argument of the current call
  call,              \* 1 or 2
  pc,                \* "enter", "branch", "loop", "done", "raised"
  clean_string,
  week_pattern,
  lines,
  line_no,           \* the position of "for line in lines"
  all_teachers,
  all_locations,
  min_start_period,
  max_end_period,
  day_of_week,
  result,            \* the returned tuple, once pc = "done"
  exc,               \* the exception raised, once pc = "raised"
  first              \* the first call's result, during the second call

\* the saving of scraped pages (parse_and_save_data, further down)
VARIABLES
  database,          \* the committed tables
  db_session,        \* the open session: its transaction's tables, its pending objects
  scraped,           \* the lists built from the rows of the current page
  save_pc,           \* "idle", "begin", "upsert", "select", "add", "commit", "failed"
  before,            \* the committed tables when the current page was opened
  pages,             \* the number of pages scraped so far
  outcome,           \* of the last page: "", "nothing", "committed", "error"
  save_exc           \* the exception of the last page, "" if none

pvars ==
  <<raw, raw_string, call, pc, clean_string, week_pattern, lines, line_no,
    all_teachers, all_locations, min_start_period, max_end_period,
    day_of_week, result, exc, first>>

svars ==
  <<database, db_session, scraped, save_pc, before, pages, outcome, save_exc>>

\* the web service: the refresh tokens (services/auth_service.py) and the
\* course tables with their selections (services/course_table_service.py,
\* services/course_selection_service.py), each served to concurrent clients
VARIABLES
  refresh_tokens,    \* the refresh_tokens table, in the order of creation
  exchanges,         \* per refresh token: how often refresh_token returned new tokens for it
  now,               \* the clock: the number of refresh tokens whose expires_at has passed
  auth_req,          \* per client: its request to the auth service
  course_tables,     \* the course_tables table
  course_selections, \* the course_selections table
  serial,            \* the number of ids given out so far, per table
  table_req,         \* per client: its request to the course table routers
  requests           \* the number of requests received so far

wvars ==
  <<refresh_tokens, exchanges, now, auth_req, course_tables, course_selections,
    serial, table_req, requests>>

vars ==
  <<raw, raw_string, call, pc, clean_string, week_pattern, lines, line_no,
    all_teachers, all_locations, min_start_period, max_end_period,
    day_of_week, result, exc, first, svars, wvars>>

\* the clients that send requests at the same time
Clients == {"a", "b"}

\* a client that has no request under way.  op, user, target and payload
\* are the request (the operation, the authenticated or found user, the id
\* or raw token it names, its body), pc the statement it has reached, loaded
\* the rows its session holds, stored the number of refresh tokens that
\* existed when it arrived, status the HTTP status of its answer
NoRequest ==
  [op |-> "", user |-> "", target |-> 0, payload |-> <<>>, pc |-> "idle",
   loaded |-> <<>>, stored |-> 0, status |-> 0]

\* no request was received yet, the tables of the web service are empty
WebIdle ==
  /\ refresh_tokens = <<>>
  /\ exchanges = <<>>
  /\ now = 0
  /\ auth_req = [c \in Clients |-> NoRequest]
  /\ course_tables = {}
  /\ course_selections = {}
  /\ serial = [course_tables |-> 0, course_selections |-> 0]
  /\ table_req = [c \in Clients |-> NoRequest]
  /\ requests = 0

\* the four tables the crawler writes, empty
EmptyTables ==
  [courses |-> {}, teachers |-> {}, course_teachers |-> <<>>, course_schedules |-> {}]

\* a session that holds nothing
NoSession ==
  [tables |-> EmptyTables,
   new |-> [courses |-> <<>>, course_teachers |-> <<>>, course_schedules |-> <<>>]]

\* lines 141-145: the empty lists
NoPage ==
  [courses |-> <<>>, teachers |-> <<>>, course_teachers |-> <<>>,
   course_schedules |-> <<>>, teacher_course_pairs |-> <<>>]

\* nothing scraped and nothing stored yet
SaveIdle ==
  /\ database = EmptyTables
  /\ db_session = NoSession
  /\ scraped = NoPage
  /\ save_pc = "idle"
  /\ before = EmptyTables
  /\ pages = 0
  /\ outcome = ""
  /\ save_exc = ""

NoResult == Tuple(<<>>, None, None, None, <<>>, EVERY_WEEK)

Init ==
  /\ raw \in Inputs
  /\ raw_string = raw
  /\ call = 1
  /\ pc = "enter"
  /\ clean_string = <<>>
  /\ week_pattern = EVERY_WEEK
  /\ lines = <<>>
  /\ line_no = 1
  /\ all_teachers = <<>>
  /\ all_locations = {}
  /\ min_start_period = PosInf
  /\ max_end_period = NegInf
  /\ day_of_week = None
  /\ result = NoResult
  /\ exc = ""
  /\ first = NoResult
  /\ SaveIdle
  /\ WebIdle

\* lines 264-272: strip, week pattern, marker removal
ExtractWeekPattern ==
  /\ pc = "enter"
  /\ week_pattern' = detect_week_pattern(Strip(raw_string))
  /\ clean_string' = remove_week_marker(Strip(raw_string))
  /\ pc' = "branch"
  /\ UNCHANGED <<raw, raw_string, call, lines, line_no, all_teachers,
                 all_locations, min_start_period, max_end_period, day_of_week,
                 result, exc, first>>
  /\ UNCHANGED <<svars, wvars>>

\* lines 274-287: the time-undecided branch
ReturnTimeUndecided ==
  /\ pc = "branch"
  /\ is_time_undecided(clean_string)
  /\ result' = Tuple(undecided_teachers(clean_string), None, None, None,
                     undecided_location(clean_string), week_pattern)
  /\ pc' = "done"
  /\ UNCHANGED <<raw, raw_string, call, clean_string, week_pattern, lines,
                 line_no, all_teachers, all_locations, min_start_period,
                 max_end_period, day_of_week, exc, first>>
  /\ UNCHANGED <<svars, wvars>>

\* lines 289-293: the accumulators and the lines of the timed-entry branch
SplitLines ==
  /\ pc = "branch"
  /\ ~is_time_undecided(clean_string)
  /\ all_teachers' = <<>>
  /\ all_locations' = {}
  /\ min_start_period' = PosInf
  /\ max_end_period' = NegInf
  /\ day_of_week' = None
  /\ lines' = split_lines(clean_string)
  /\ line_no' = 1
  /\ pc' = "loop"
  /\ UNCHANGED <<raw, raw_string, call, clean_string, week_pattern, result,
                 exc, first>>
  /\ UNCHANGED <<svars, wvars>>

\* lines 295-321: the loop body for one line
ProcessLine ==
  /\ pc = "loop"
  /\ line_no <= Len(lines)
  /\ LET line == lines[line_no]
         k == teacher_match(line)
         acc == match_loop([day_of_week |-> day_of_week,
                            min_start_period |-> min_start_period,
                            max_end_period |-> max_end_period,
                            all_locations |-> all_locations,
                            exc |-> ""],
                           pattern_findall(time_loc_part_of(line, k)))
     IN IF k = 0
        THEN /\ all_teachers' = IF Strip(line) # <<>> /\ all_teachers # <<>>
                                THEN Append(all_teachers, Strip(line))
                                ELSE all_teachers
             /\ line_no' = line_no + 1
             /\ UNCHANGED <<all_locations, min_start_period, max_end_period,
                            day_of_week, pc, exc>>
        ELSE /\ all_teachers' = Append(all_teachers, teacher_name_of(line, k))
             /\ day_of_week' = acc.day_of_week
             /\ min_start_period' = acc.min_start_period
             /\ max_end_period' = acc.max_end_period
             /\ all_locations' = acc.all_locations
             /\ exc' = acc.exc
             /\ pc' = IF acc.exc # "" THEN "raised" ELSE "loop"
             /\ line_no' = IF acc.exc # "" THEN line_no ELSE line_no + 1
  /\ UNCHANGED <<raw, raw_string, call, clean_string, week_pattern, lines,
                 result, first>>
  /\ UNCHANGED <<svars, wvars>>

\* lines 323-337: the fallback and the final tuple; the set of rooms is
\* iterated in an order the program does not control
Finalize ==
  /\ pc = "loop"
  /\ line_no > Len(lines)
  /\ \E order \in IterationOrders(all_locations) :
       IF nothing_extracted(all_teachers, all_locations, clean_string)
       THEN /\ result' = Tuple(<<clean_string>>, None, None, None, <<>>, week_pattern)
            /\ pc' = "done"
            /\ exc' = exc
       ELSE IF final_raises(min_start_period, max_end_period) # ""
       THEN /\ exc' = final_raises(min_start_period, max_end_period)
            /\ pc' = "raised"
            /\ result' = result
       ELSE /\ result' = Tuple(dict_fromkeys(all_teachers), day_of_week,
                               final_start_of(min_start_period),
                               final_end_of(max_end_period),
                               location_str_of(order), week_pattern)
            /\ pc' = "done"
            /\ exc' = exc
  /\ UNCHANGED <<raw, raw_string, call, clean_string, week_pattern, lines,
                 line_no, all_teachers, all_locations, min_start_period,
                 max_end_period, day_of_week, first>>
  /\ UNCHANGED <<svars, wvars>>

\* The caller parses the cell again, its lines in any order (the same order
\* included); the first result is kept for comparison.
CallAgain ==
  /\ pc = "done"
  /\ call = 1
  /\ \E s \in Reorderings(raw) : raw_string' = s
  /\ first' = result
  /\ call' = 2
  /\ pc' = "enter"
  /\ clean_string' = <<>>
  /\ week_pattern' = EVERY_WEEK
  /\ lines' = <<>>
  /\ line_no' = 1
  /\ all_teachers' = <<>>
  /\ all_locations' = {}
  /\ min_start_period' = PosInf
  /\ max_end_period' = NegInf
  /\ day_of_week' = None
  /\ result' = NoResult
  /\ UNCHANGED <<raw, exc>>
  /\ UNCHANGED <<svars, wvars>>

Next ==
  \/ ExtractWeekPattern
  \/ ReturnTimeUndecided
  \/ SplitLines
  \/ ProcessLine
  \/ Finalize
  \/ CallAgain

Spec == Init /\ [][Next]_vars

\* ------------------------------------------------------------------------
\* parse_and_save_data: the rows of one page, saved in one transaction
\* ------------------------------------------------------------------------

MaxPages == 2

\* the columns of uix_course_identity, as one value
CourseKeys == {"k1", "k2", "k3"}

\* cell 8 of a row: without text, or with the teachers parse_course_string
\* returned for its text (a name may come twice, see the time-undecided branch)
Cells ==
  { [has_text |-> FALSE, teacher_list |-> <<>>],
    [has_text |-> TRUE, teacher_list |-> <<"A">>],
    [has_text |-> TRUE, teacher_list |-> <<"A", "B">>],
    [has_text |-> TRUE, teacher_list |-> <<"A", "A">>] }

Rows == [course_key : CourseKeys, cell : Cells]

\* the rows of a page that have a course code
PagePool ==
  {<<>>} \cup {<<r>> : r \in Rows} \cup {<<r1, r2>> : r1, r2 \in Rows}

\* uuid.uuid4(): a value no row has yet (the least one, values being
\* interchangeable)
uuid4(used) ==
  LET n == Cardinality(used) + 1
  IN CHOOSE i \in 1..n : i \notin used /\ \A j \in 1..n : j \notin used => i <= j

IdsOf(tables) ==
  {c.id : c \in tables.courses} \cup {t.id : t \in tables.teachers}

\* lines 147-210: one Course per row, one Teacher and one pair per returned
\* name, one CourseSchedule per row whose cell 8 has text
RECURSIVE scrape_rows(_, _, _)
scrape_rows(rows, used, acc) ==
  IF rows = <<>> THEN acc
  ELSE LET row == Head(rows)
           id == uuid4(used)
           teacher_list == row.cell.teacher_list
       IN scrape_rows(Tail(rows), used \cup {id},
            [courses |-> Append(acc.courses, [id |-> id, course_key |-> row.course_key]),
             teachers |-> acc.teachers \o teacher_list,
             teacher_course_pairs |->
               acc.teacher_course_pairs \o
                 [k \in 1..Len(teacher_list) |-> <<teacher_list[k], id>>],
             course_schedules |->
               IF row.cell.has_text
               THEN Append(acc.course_schedules, [course_id |-> id])
               ELSE acc.course_schedules,
             course_teachers |-> acc.course_teachers])

Range(xs) == {xs[k] : k \in 1..Len(xs)}

\* the unique constraint of the courses table
uix_course_identity(rows) ==
  \A a, b \in rows : a.course_key = b.course_key => a = b

\* the unique index of teachers.name
teachers_name_unique(rows) ==
  \A a, b \in rows : a.name = b.name => a = b

\* Fault: a plain INSERT, every value becomes a row.
RECURSIVE insert_values(_, _, _)
insert_values(rows, names, used) ==
  IF names = <<>> THEN rows
  ELSE LET id == uuid4(used)
       IN insert_values(rows \cup {[id |-> id, name |-> Head(names)]},
                        Tail(names), used \cup {id})

\* INSERT ... VALUES ... ON CONFLICT (name) DO NOTHING: a value whose name a
\* row has, an earlier value of the statement included, is skipped
RECURSIVE on_conflict_do_nothing(_, _, _)
on_conflict_do_nothing(rows, names, used) ==
  IF names = <<>> THEN rows
  ELSE IF \E t \in rows : t.name = Head(names)
       THEN on_conflict_do_nothing(rows, Tail(names), used)
  ELSE LET id == uuid4(used)
       IN on_conflict_do_nothing(rows \cup {[id |-> id, name |-> Head(names)]},
                                 Tail(names), used \cup {id})

\* select(Teacher).where(Teacher.name.in_(names))
select_teachers(rows, names) == {t \in rows : t.name \in Range(names)}

\* lines 241-248, the inner loop: one link per pair that names the teacher
RECURSIVE links_of_teacher(_, _)
links_of_teacher(teacher, pairs) ==
  IF pairs = <<>> THEN <<>>
  ELSE (IF Head(pairs)[1] = teacher.name
        THEN <<[course_id |-> Head(pairs)[2], teacher_id |-> teacher.id]>>
        ELSE <<>>) \o links_of_teacher(teacher, Tail(pairs))

\* lines 241-248, the outer loop over the selected teachers
RECURSIVE build_course_teachers(_, _)
build_course_teachers(db_teachers, pairs) ==
  IF db_teachers = <<>> THEN <<>>
  ELSE links_of_teacher(Head(db_teachers), pairs)
         \o build_course_teachers(Tail(db_teachers), pairs)

\* a flush: the pending objects become rows of the transaction's tables;
\* the link rows keep the order of their autoincrement ids
flush(tables, new) ==
  [courses |-> tables.courses \cup Range(new.courses),
   teachers |-> tables.teachers,
   course_teachers |-> tables.course_teachers \o new.course_teachers,
   course_schedules |-> tables.course_schedules \cup Range(new.course_schedules)]

\* the flush raises IntegrityError when a course breaks the unique constraint
flush_raises(tables, new) ==
  ~uix_course_identity(tables.courses \cup Range(new.courses))

NothingNew == NoSession.new

\* Fault: closing the session keeps what the transaction wrote.
rolled_back_kept(committed, working) == working

\* session.close() without commit: what the transaction wrote is discarded
rolled_back(committed, working) == committed

\* lines 129-218: the rows of the next page become the lists; a page
\* without courses is not saved. The lists and the session live as long as
\* the call.
ScrapeFrom(pool) ==
  /\ save_pc = "idle"
  /\ pages < MaxPages
  /\ \E rows \in pool :
       LET lists == scrape_rows(rows, IdsOf(database), NoPage)
       IN /\ scraped' = IF lists.courses = <<>> THEN NoPage ELSE lists
          /\ save_pc' = IF lists.courses = <<>> THEN "idle" ELSE "begin"
          /\ outcome' = IF lists.courses = <<>> THEN "nothing" ELSE ""
  /\ before' = database
  /\ pages' = pages + 1
  /\ save_exc' = ""
  /\ db_session' = NoSession
  /\ UNCHANGED <<database, pvars, wvars>>

ScrapePage == ScrapeFrom(PagePool)

\* lines 221-223: the session opens on the committed tables, the courses
\* become pending
AddCourses ==
  /\ save_pc = "begin"
  /\ db_session' = [tables |-> database,
                    new |-> [NothingNew EXCEPT !.courses = scraped.courses]]
  /\ save_pc' = IF scraped.teachers # <<>> THEN "upsert" ELSE "add"
  /\ UNCHANGED <<database, scraped, before, pages, outcome, save_exc, pvars, wvars>>

\* lines 225-230: the statement is preceded by the session's autoflush of the
\* pending courses; the connection may be lost
UpsertTeachers ==
  /\ save_pc = "upsert"
  /\ \E lost \in BOOLEAN :
       LET flushed == flush(db_session.tables, db_session.new)
           inserted == on_conflict_do_nothing(flushed.teachers, scraped.teachers,
                                              IdsOf(flushed))
       IN IF lost
          THEN /\ save_exc' = "OperationalError in insert teachers"
               /\ save_pc' = "failed"
               /\ UNCHANGED db_session
          ELSE IF flush_raises(db_session.tables, db_session.new)
          THEN /\ save_exc' = "UniqueViolation uix_course_identity"
               /\ save_pc' = "failed"
               /\ UNCHANGED db_session
          ELSE IF ~teachers_name_unique(inserted)
          THEN /\ save_exc' = "UniqueViolation teachers.name"
               /\ save_pc' = "failed"
               /\ db_session' = [tables |-> flushed, new |-> NothingNew]
          ELSE /\ db_session' = [tables |-> [flushed EXCEPT !.teachers = inserted],
                                 new |-> NothingNew]
               /\ save_pc' = "select"
               /\ UNCHANGED save_exc
  /\ UNCHANGED <<database, scraped, before, pages, outcome, pvars, wvars>>

\* lines 232-248: the teachers of the page are read back, in an order the
\* program does not control, and linked to their courses
SelectTeachers ==
  /\ save_pc = "select"
  /\ \E lost \in BOOLEAN :
       IF lost
       THEN /\ save_exc' = "OperationalError in select teachers"
            /\ save_pc' = "failed"
            /\ UNCHANGED scraped
       ELSE /\ \E db_teachers \in
                   IterationOrders(select_teachers(
                     db_session.tables.teachers,
                     [k \in 1..Len(scraped.teacher_course_pairs) |->
                        scraped.teacher_course_pairs[k][1]])) :
                 scraped' = [scraped EXCEPT !.course_teachers =
                    build_course_teachers(db_teachers, scraped.teacher_course_pairs)]
            /\ save_pc' = "add"
            /\ UNCHANGED save_exc
  /\ UNCHANGED <<database, db_session, before, pages, outcome, pvars, wvars>>

\* lines 250-253: the links and the schedules become pending
AddLinksAndSchedules ==
  /\ save_pc = "add"
  /\ db_session' = [db_session EXCEPT
                      !.new.course_teachers = scraped.course_teachers,
                      !.new.course_schedules = scraped.course_schedules]
  /\ save_pc' = "commit"
  /\ UNCHANGED <<database, scraped, before, pages, outcome, save_exc, pvars, wvars>>

\* line 255: commit flushes what is pending and makes the transaction's
\* tables the committed ones, or raises
Commit ==
  /\ save_pc = "commit"
  /\ \E lost \in BOOLEAN :
       IF lost
       THEN /\ save_exc' = "OperationalError in commit"
            /\ save_pc' = "failed"
            /\ UNCHANGED <<database, db_session, scraped, before, outcome>>
       ELSE IF flush_raises(db_session.tables, db_session.new)
       THEN /\ save_exc' = "UniqueViolation uix_course_identity"
            /\ save_pc' = "failed"
            /\ UNCHANGED <<database, db_session, scraped, before, outcome>>
       ELSE /\ database' = flush(db_session.tables, db_session.new)
            /\ before' = flush(db_session.tables, db_session.new)
            /\ db_session' = NoSession
            /\ scraped' = NoPage
            /\ save_pc' = "idle"
            /\ outcome' = "committed"
            /\ UNCHANGED save_exc
  /\ UNCHANGED <<pages, pvars, wvars>>

\* Fault: the exception is not caught and ends the crawl.
CloseAndRaise ==
  /\ save_pc = "failed"
  /\ database' = rolled_back(database, db_session.tables)
  /\ before' = rolled_back(database, db_session.tables)
  /\ db_session' = NoSession
  /\ scraped' = NoPage
  /\ save_pc' = "aborted"
  /\ outcome' = "error"
  /\ UNCHANGED <<pages, save_exc, pvars, wvars>>

\* the exception leaves the with block, which closes the session, and is
\* logged (lines 257-258)
CloseAndLog ==
  /\ save_pc = "failed"
  /\ database' = rolled_back(database, db_session.tables)
  /\ before' = rolled_back(database, db_session.tables)
  /\ db_session' = NoSession
  /\ scraped' = NoPage
  /\ save_pc' = "idle"
  /\ outcome' = "error"
  /\ UNCHANGED <<pages, save_exc, pvars, wvars>>

InitSave ==
  /\ raw = <<>>
  /\ raw_string = <<>>
  /\ call = 1
  /\ pc = "enter"
  /\ clean_string = <<>>
  /\ week_pattern = EVERY_WEEK
  /\ lines = <<>>
  /\ line_no = 1
  /\ all_teachers = <<>>
  /\ all_locations = {}
  /\ min_start_period = PosInf
  /\ max_end_period = NegInf
  /\ day_of_week = None
  /\ result = NoResult
  /\ exc = ""
  /\ first = NoResult
  /\ SaveIdle
  /\ WebIdle

NextSave ==
  \/ ScrapePage
  \/ AddCourses
  \/ UpsertTeachers
  \/ SelectTeachers
  \/ AddLinksAndSchedules
  \/ Commit
  \/ CloseAndLog

SpecSave == InitSave /\ [][NextSave]_vars

\* ------------------------------------------------------------------------
\* Properties of parse_course_string
\* ------------------------------------------------------------------------

Returned == pc = "done"

TimeUndecided == Contains(clean_string, TIME_UNDECIDED)

AllAbsent(r) == r.dayOfWeek = None /\ r.startPeriod = None /\ r.endPeriod = None

AllPresent(r) == r.dayOfWeek # None /\ r.startPeriod # None /\ r.endPeriod # None

\* the time entries the loop meets, in the order it meets them: for every
\* line with a teacher prefix, the matches of the pattern in its remainder
RECURSIVE EncounteredMatches(_)
EncounteredMatches(ls) ==
  IF ls = <<>> THEN <<>>
  ELSE (IF teacher_match(Head(ls)) = 0 THEN <<>>
        ELSE pattern_findall(time_loc_part_of(Head(ls), teacher_match(Head(ls)))))
       \o EncounteredMatches(Tail(ls))

\* the pattern matches somewhere in s
EntryAnywhere(s) == \E i \in 1..Len(s) : pattern_at(s, i) # None

\* C1 as claimed: every non-empty raw string yields a non-empty teachers list.
C1_TeachersNonEmptyForNonEmptyRaw ==
  (Returned /\ raw_string # <<>>) => result.teachers # <<>>

\* C1 amended: when the text that is left after stripping the raw string and
\* taking out the week marker (clean_string) is non-empty, the teachers list
\* is non-empty.
C1_TeachersNonEmptyForNonEmptyText ==
  (Returned /\ clean_string # <<>>) => result.teachers # <<>>

\* a text with no teacher prefix and no room falls back to the text itself
C1_Witness ==
  /\ Returned
  /\ clean_string # <<>>
  /\ ~TimeUndecided
  /\ all_teachers = <<>>
  /\ result.teachers = <<clean_string>>

\* C2: if startPeriod is present then endPeriod is present and
\* endPeriod >= startPeriod, for every input (descending ranges included).
C2_EndNotBeforeStart ==
  (Returned /\ result.startPeriod # None) =>
    (result.endPeriod # None /\ result.endPeriod[1] >= result.startPeriod[1])

C4_AllOrNothing ==
  Returned =>
    /\ AllAbsent(result) \/ AllPresent(result)
    /\ ~EntryAnywhere(clean_string) => AllAbsent(result)
    /\ result.dayOfWeek # None => result.dayOfWeek[1] \in 1..7

\* a call that found time entries on more than one line
C4_Witness ==
  /\ Returned
  /\ AllPresent(result)
  /\ Len(lines) >= 2
  /\ result.startPeriod[1] < result.endPeriod[1]

\* C5 as claimed: the location does not depend on the order of the lines.
C5_LocationOrderIndependent ==
  (Returned /\ call = 2) => result.location = first.location

\* C5 amended: for a raw string without the time-undecided marker, the
\* location does not depend on the order of the lines.
C5_TimedLocationOrderIndependent ==
  (Returned /\ call = 2 /\ ~Contains(raw, TIME_UNDECIDED)) =>
    result.location = first.location

\* two lines with different rooms, parsed in both orders
C5_Witness ==
  /\ Returned
  /\ call = 2
  /\ raw_string # raw
  /\ ~Contains(raw, TIME_UNDECIDED)
  /\ Cardinality(all_locations) >= 2
  /\ Contains(result.location, JOINER)

\* C6 as claimed: with both week markers in the string, the marker that
\* occurs first decides the week pattern.
C6_FirstMarkerWins ==
  (Returned /\ Contains(raw_string, ODD_MARKER) /\ Contains(raw_string, EVEN_MARKER)) =>
    result.weekPattern =
      (IF Find(raw_string, ODD_MARKER, 1) < Find(raw_string, EVEN_MARKER, 1)
       THEN ODD_WEEKS ELSE EVEN_WEEKS)

\* C6 amended: with both week markers in the string, the week pattern is
\* ODD_WEEKS, whichever marker occurs first.
C6_OddMarkerWins ==
  (Returned /\ Contains(raw_string, ODD_MARKER) /\ Contains(raw_string, EVEN_MARKER)) =>
    result.weekPattern = ODD_WEEKS

\* both markers, the even one first
C6_Witness ==
  /\ Returned
  /\ Contains(raw_string, ODD_MARKER)
  /\ Contains(raw_string, EVEN_MARKER)
  /\ Find(raw_string, EVEN_MARKER, 1) < Find(raw_string, ODD_MARKER, 1)

\* C7: the week pattern is ODD_WEEKS for a string with the odd marker and
\* without the even one, EVEN_WEEKS for a string with the even marker and
\* without the odd one, and EVERY_WEEK exactly for a string with neither,
\* in the time-undecided branch and in the timed-entry branch.
C7_WeekPatternOfMarker ==
  Returned =>
    LET odd == Contains(raw_string, ODD_MARKER)
        even == Contains(raw_string, EVEN_MARKER)
    IN /\ (odd /\ ~even) => result.weekPattern = ODD_WEEKS
       /\ (even /\ ~odd) => result.weekPattern = EVEN_WEEKS
       /\ (~odd /\ ~even) <=> result.weekPattern = EVERY_WEEK

\* the even marker alone, in the time-undecided branch
C7_Witness ==
  /\ Returned
  /\ TimeUndecided
  /\ Contains(raw_string, EVEN_MARKER)
  /\ ~Contains(raw_string, ODD_MARKER)
  /\ result.weekPattern = EVEN_WEEKS

\* C8: no string occurs twice in the returned teachers list, in the
\* timed-entry branch and in the time-undecided branch.
C8_TeachersDistinct ==
  Returned =>
    \A i, j \in 1..Len(result.teachers) :
      result.teachers[i] = result.teachers[j] => i = j

\* C9: two calls on the same input return equal results, whatever the order
\* in which the set of rooms is iterated.
C9_SameInputSameResult ==
  (Returned /\ call = 2 /\ raw_string = raw) => result = first

\* the second call on the same text, with two rooms in the set
C9_Witness ==
  /\ Returned
  /\ call = 2
  /\ raw_string = raw
  /\ Cardinality(all_locations) >= 2

\* C10: in the timed-entry branch dayOfWeek is the day index of the first
\* time entry the loop meets (lines in text order, matches left to right);
\* it is absent when the loop meets none.
C10_FirstDayWins ==
  (Returned /\ ~TimeUndecided) =>
    result.dayOfWeek =
      (IF EncounteredMatches(lines) = <<>> THEN None
       ELSE DAY_OF_WEEK_MAP(EncounteredMatches(lines)[1].day_char))

\* entries with different day glyphs, the later one on a later line
C10_Witness ==
  /\ Returned
  /\ Len(lines) >= 2
  /\ Len(EncounteredMatches(lines)) >= 2
  /\ pattern_findall(lines[1]) # <<>>
  /\ pattern_findall(lines[2]) # <<>>
  /\ pattern_findall(lines[1])[1].day_char # pattern_findall(lines[2])[1].day_char
  /\ result.dayOfWeek = DAY_OF_WEEK_MAP(pattern_findall(lines[1])[1].day_char)

\* the periods one time entry stands for
StartOf(m) == IntOf(m.start_p_str)

EndOf(m) == IF m.end_p_str = <<>> THEN StartOf(m) ELSE IntOf(m.end_p_str)

\* C11: startPeriod is the least start period and endPeriod the greatest end
\* period over the time entries of the cell, an entry without a dash having
\* its start period as end period; both are absent when there is no entry.
C11_MinStartMaxEnd ==
  (Returned /\ ~TimeUndecided) =>
    LET ms == EncounteredMatches(lines)
        starts == {StartOf(ms[k]) : k \in 1..Len(ms)}
        ends == {EndOf(ms[k]) : k \in 1..Len(ms)}
    IN IF ms = <<>>
       THEN result.startPeriod = None /\ result.endPeriod = None
       ELSE /\ result.startPeriod = <<CHOOSE x \in starts : \A y \in starts : x <= y>>
            /\ result.endPeriod = <<CHOOSE x \in ends : \A y \in ends : x >= y>>

\* a later entry starts earlier than the first one, and an entry has no dash
C11_Witness ==
  /\ Returned
  /\ ~TimeUndecided
  /\ LET ms == EncounteredMatches(lines) IN
       /\ Len(ms) >= 2
       /\ StartOf(ms[Len(ms)]) < StartOf(ms[1])
       /\ \E k \in 1..Len(ms) : ms[k].end_p_str = <<>>
  /\ result.startPeriod # None

\* C12: in the timed-entry branch the location is the set of the trimmed
\* room names of all time entries, each once, in ascending lexicographic
\* order, joined by the ideographic comma; it is empty without an entry.
C12_LocationSortedJoined ==
  (Returned /\ ~TimeUndecided) =>
    LET ms == EncounteredMatches(lines)
        rooms == {Strip(ms[k].location) : k \in 1..Len(ms)}
    IN \E order \in IterationOrders(rooms) :
         /\ \A i \in 1..(Len(order) - 1) : StrLess(order[i], order[i + 1])
         /\ result.location = join(JOINER, order)

\* two rooms, one of them named by two entries, met in descending order
C12_Witness ==
  /\ Returned
  /\ ~TimeUndecided
  /\ LET ms == EncounteredMatches(lines)
         rooms == {Strip(ms[k].location) : k \in 1..Len(ms)}
     IN /\ Cardinality(rooms) = 2
        /\ Len(ms) > 2
        /\ StrLess(Strip(ms[2].location), Strip(ms[1].location))

\* The parts of a one-line text name(day)s-e(room) in which neither the name
\* nor the room holds a parenthesis and which holds no week marker and no
\* time-undecided marker; None for a text of another form.
FormOf(s) ==
  LET opens == {i \in 1..Len(s) : s[i] = "("}
      p == IF opens = {} THEN 0 ELSE CHOOSE i \in opens : \A j \in opens : i <= j
      n1 == RunLen(s, p + 3, Digits)
      d == p + 3 + n1
      n2 == RunLen(s, d + 1, Digits)
      o == d + 1 + n2
  IN IF /\ p >= 1
        /\ p + 2 <= Len(s)
        /\ s[p + 1] \in DayGlyphs
        /\ s[p + 2] = ")"
        /\ n1 >= 1
        /\ d <= Len(s) /\ s[d] = "-"
        /\ n2 >= 1
        /\ o < Len(s) /\ s[o] = "("
        /\ s[Len(s)] = ")"
        /\ \A j \in (o + 1)..(Len(s) - 1) : s[j] \notin {"(", ")"}
        /\ \A j \in 1..(p - 1) : s[j] # ")"
        /\ \A j \in 1..Len(s) : s[j] # "\n"
        /\ ~Contains(s, ODD_MARKER) /\ ~Contains(s, EVEN_MARKER)
        /\ ~Contains(s, TIME_UNDECIDED)
     THEN <<[name |-> Slice(s, 1, p - 1), glyph |-> s[p + 1],
             s |-> Slice(s, p + 3, d - 1), e |-> Slice(s, d + 1, o - 1),
             room |-> Slice(s, o + 1, Len(s) - 1)]>>
     ELSE None

\* C13 as claimed: a text name(day)s-e(room) yields teachers=[name], the
\* index of the day, the periods s and e, location=room and EVERY_WEEK.
C13_SingleEntryAsWritten ==
  (Returned /\ FormOf(raw_string) # None) =>
    LET f == FormOf(raw_string)[1] IN
    result = Tuple(<<f.name>>, DAY_OF_WEEK_MAP(f.glyph), <<IntOf(f.s)>>,
                   <<IntOf(f.e)>>, f.room, EVERY_WEEK)

\* C13 amended: a text name(day)s-e(room) whose name is not blank yields
\* teachers=[the trimmed name without a trailing run of whitespace and
\* digits], the index of the day, the periods s and e, location=the trimmed
\* room and EVERY_WEEK.
C13_SingleEntryNormalised ==
  (Returned /\ FormOf(raw_string) # None /\ Strip(FormOf(raw_string)[1].name) # <<>>) =>
    LET f == FormOf(raw_string)[1] IN
    result = Tuple(<<Strip(strip_trailing_number(Strip(f.name)))>>,
                   DAY_OF_WEEK_MAP(f.glyph), <<IntOf(f.s)>>, <<IntOf(f.e)>>,
                   Strip(f.room), EVERY_WEEK)

\* a text of the form was parsed, and its name and room needed trimming
C13_Witness ==
  /\ Returned
  /\ FormOf(raw_string) # None
  /\ Strip(FormOf(raw_string)[1].name) # <<>>
  /\ result.teachers # <<FormOf(raw_string)[1].name>>
  /\ result.location # FormOf(raw_string)[1].room
  /\ AllPresent(result)

\* C14: when the cleaned text holds the time-undecided marker, dayOfWeek,
\* startPeriod and endPeriod are absent, also when the text holds
\* well-formed time entries.
C14_UndecidedHasNoTime ==
  (Returned /\ Contains(clean_string, TIME_UNDECIDED)) => AllAbsent(result)

\* the marker on one line and a time entry on another one
C14_Witness ==
  /\ Returned
  /\ Contains(clean_string, TIME_UNDECIDED)
  /\ ~StartsWithAt(clean_string, 1, TIME_UNDECIDED)
  /\ EncounteredMatches(split_lines(clean_string)) # <<>>

\* the teachers the claim describes for a text s that holds the marker
ClaimedUndecidedTeachers(s) ==
  LET text_before == Slice(s, 1, Find(s, TIME_UNDECIDED, 1) - 1)
      trimmed == StripSet(text_before, {"dun", "/", ",", " ", "\n"})
      names == StrippedNonEmpty(SplitOn(trimmed, {"dun", ","}))
  IN IF names = <<>> THEN <<NO_TEACHER>> ELSE names

\* C15: in the time-undecided branch the teachers are the text before the
\* marker, the separators (ideographic comma, slash, comma) and whitespace
\* trimmed from both ends, split on the ideographic comma or the comma into
\* trimmed names, empty pieces dropped; the list is ["none"] when no name
\* remains.
C15_UndecidedTeachers ==
  (Returned /\ Contains(clean_string, TIME_UNDECIDED)) =>
    result.teachers = ClaimedUndecidedTeachers(clean_string)

\* the content of a week marker, with or without its parentheses
MarkerText(s) == Contains(s, <<"dan", "zhou">>) \/ Contains(s, <<"shuang", "zhou">>)

\* C18: no returned teacher name and not the returned location holds the
\* text of a week marker, whatever markers the input holds and whether or
\* not it holds the time-undecided marker.
C18_NoMarkerLeak ==
  Returned =>
    /\ \A k \in 1..Len(result.teachers) : ~MarkerText(result.teachers[k])
    /\ ~MarkerText(result.location)

\* the first opening parenthesis of a line, 0 when it has none
FirstParen(line) ==
  LET opens == {i \in 1..Len(line) : line[i] = "("}
  IN IF opens = {} THEN 0 ELSE CHOOSE i \in opens : \A j \in opens : i <= j

\* the name the claim gives a line: the text before its first opening
\* parenthesis, trimmed (a trailing number is not part of a name)
ClaimedName(line) ==
  Strip(strip_trailing_number(Strip(Slice(line, 1, FirstParen(line) - 1))))

\* the time entries the claim gives a line: those of the remainder that
\* starts at its first opening parenthesis
ClaimedMatches(line) == pattern_findall(Strip(From(line, FirstParen(line))))

\* a step of the loop over the lines that processes the line given
LineStep(line) ==
  /\ pc = "loop"
  /\ line_no <= Len(lines)
  /\ lines[line_no] = line
  /\ line_no' = line_no + 1

\* C19: in the timed-entry branch every line with an opening parenthesis
\* records as teacher the trimmed text before its first opening parenthesis
\* (nothing when that text is empty) and contributes the time entries found
\* from that parenthesis on, also when the line begins with the parenthesis.
C19_NameBeforeFirstParen ==
  [][\A k \in 1..Len(lines) :
       (LineStep(lines[k]) /\ FirstParen(lines[k]) # 0) =>
         LET name == ClaimedName(lines[k])
             ms == ClaimedMatches(lines[k])
         IN /\ all_teachers' =
                 all_teachers \o (IF name = <<>> THEN <<>> ELSE <<name>>)
            /\ all_locations' =
                 all_locations \cup {Strip(ms[j].location) : j \in 1..Len(ms)}
            /\ (ms # <<>>) => day_of_week' # None]_vars

HasParen(line) == \E i \in 1..Len(line) : line[i] \in {"(", ")"}

\* a line without parenthesis changes the teachers only by being appended
\* to a list that is not empty
C20_OnlyAsContinuation ==
  [][\A k \in 1..Len(lines) :
       (LineStep(lines[k]) /\ ~HasParen(lines[k]) /\ all_teachers' # all_teachers) =>
         (all_teachers # <<>> /\ all_teachers' = Append(all_teachers, lines[k]))]_vars

\* the first returned teacher is not a line without parenthesis: the loop
\* leaves such a line out (above), and so does the return without any name
C20_NeverFirst ==
  (Returned /\ ~TimeUndecided /\ all_teachers = <<>> /\ result.teachers # <<>>) =>
    \A k \in 1..Len(lines) : ~HasParen(lines[k]) => result.teachers[1] # lines[k]

\* a line with a parenthesis is not appended whole
C20_ParenNotContinuation ==
  [][\A k \in 1..Len(lines) :
       (LineStep(lines[k]) /\ HasParen(lines[k])) =>
         all_teachers' # Append(all_teachers, lines[k])]_vars

\* C20: a line without parenthesis adds its text to the teachers only when a
\* teacher was captured from an earlier line, is never the first returned
\* teacher, and a line with a parenthesis is never appended as continuation.
C20_ContinuationLines ==
  /\ C20_OnlyAsContinuation
  /\ []C20_NeverFirst
  /\ C20_ParenNotContinuation

\* ------------------------------------------------------------------------
\* Properties of parse_and_save_data
\* ------------------------------------------------------------------------

\* how often x occurs in the sequence xs
Count(xs, x) == Cardinality({k \in 1..Len(xs) : xs[k] = x})

\* the tables d hold the tables b and every row of the lists s: the courses,
\* a teacher for every name, a link for every pair, the schedules
StoredAll(b, d, s) ==
  /\ d.courses = b.courses \cup Range(s.courses)
  /\ b.teachers \subseteq d.teachers
  /\ {t.name : t \in d.teachers} = {t.name : t \in b.teachers} \cup Range(s.teachers)
  /\ d.course_schedules = b.course_schedules \cup Range(s.course_schedules)
  /\ Len(d.course_teachers) = Len(b.course_teachers) + Len(s.teacher_course_pairs)
  /\ SubSeq(d.course_teachers, 1, Len(b.course_teachers)) = b.course_teachers
  /\ \A k \in 1..Len(s.teacher_course_pairs) :
       LET pair == s.teacher_course_pairs[k]
       IN \E t \in d.teachers :
            /\ t.name = pair[1]
            /\ Count(SubSeq(d.course_teachers, Len(b.course_teachers) + 1,
                            Len(d.course_teachers)),
                     [course_id |-> pair[2], teacher_id |-> t.id])
                 = Count(s.teacher_course_pairs, pair)

\* C16: the rows of a page are stored all together or not at all: while
\* the page is being saved the committed tables are those of before the
\* page, and when the call returns they are either unchanged (a failure at
\* any statement, or nothing to save) or hold every course, new teacher,
\* link and schedule of the page.
C16_PageAtomic ==
  /\ [](save_pc # "idle" => database = before)
  /\ [][(save_pc # "idle" /\ save_pc' = "idle") =>
          IF outcome' = "committed"
          THEN StoredAll(database, database', scraped)
          ELSE database' = database]_vars

\* a page failed at its commit, after all its statements, and the rows of
\* an earlier page are the only ones stored
C16_Witness ==
  /\ save_pc = "idle"
  /\ outcome = "error"
  /\ save_exc = "OperationalError in commit"
  /\ database.course_teachers # <<>>
  /\ Cardinality(database.courses) = 1

\* C17: the teachers table never holds two rows of one name, the teacher
\* statement of a page never raises for a name that is stored or repeated,
\* and no page changes or removes a stored teacher row (its id stays).
C17_TeacherUpsert ==
  /\ [](teachers_name_unique(database.teachers)
        /\ save_exc # "UniqueViolation teachers.name")
  /\ [][\A t \in database.teachers : t \in database.teachers']_vars

\* a second page was committed and one teacher row is linked to three
\* courses: a page named a stored teacher, and a page named a teacher for
\* two of its courses
C17_Witness ==
  /\ save_pc = "idle"
  /\ outcome = "committed"
  /\ pages >= 2
  /\ \E t \in database.teachers :
       Cardinality({l.course_id : l \in {m \in Range(database.course_teachers) :
                                          m.teacher_id = t.id}}) = 3

\* ------------------------------------------------------------------------
\* Further properties of parse_course_string
\* ------------------------------------------------------------------------

\* the number of digits a text ends with
TrailingDigits(s) ==
  Cardinality({k \in 1..Len(s) : \A j \in k..Len(s) : IsDigit(s[j])})

\* the name the claim gives a line: the text before the first opening
\* parenthesis without the digits it ends with, trimmed
ClaimedNameWithoutDigits(line) ==
  LET prefix == Strip(Slice(line, 1, FirstParen(line) - 1))
  IN Strip(Slice(prefix, 1, Len(prefix) - TrailingDigits(prefix)))

\* C21: the digits a line's teacher prefix ends with are removed before the
\* name is recorded, with or without whitespace before them (stated for the
\* prefixes that are more than digits).
C21_TrailingDigitsRemoved ==
  [][\A k \in 1..Len(lines) :
       (/\ LineStep(lines[k])
        /\ FirstParen(lines[k]) > 1
        /\ ClaimedNameWithoutDigits(lines[k]) # <<>>) =>
         all_teachers' = Append(all_teachers, ClaimedNameWithoutDigits(lines[k]))]_vars

\* the parenthesized groups of a text: an opening parenthesis of either
\* width, the nearest closing one after it, no line break between them
Groups(s) ==
  {g \in (1..Len(s)) \X (1..Len(s)) :
     /\ g[1] < g[2]
     /\ s[g[1]] \in {"(", "FL"}
     /\ s[g[2]] \in {")", "FR"}
     /\ \A j \in (g[1] + 1)..(g[2] - 1) : s[j] \notin {")", "FR", "\n"}}

\* the content of the group that starts first, None without a group
FirstGroup(s) ==
  IF Groups(s) = {} THEN None
  ELSE LET g == CHOOSE x \in Groups(s) : \A y \in Groups(s) : x[1] <= y[1]
       IN <<Slice(s, g[1] + 1, g[2] - 1)>>

\* C22: in the time-undecided branch the location is the trimmed content of
\* the first parenthesized group of the text when there is one and its
\* content is not the room-undecided sentinel, and the sentinel otherwise.
C22_UndecidedLocation ==
  (Returned /\ Contains(clean_string, TIME_UNDECIDED)) =>
    LET g == FirstGroup(clean_string)
    IN result.location =
         IF g # None /\ Strip(g[1]) # ROOM_UNDECIDED THEN Strip(g[1])
         ELSE ROOM_UNDECIDED

\* the first group of the text had blanks around its content
C22_Witness ==
  /\ Returned
  /\ Contains(clean_string, TIME_UNDECIDED)
  /\ FirstGroup(clean_string) # None
  /\ Strip(FirstGroup(clean_string)[1]) # FirstGroup(clean_string)[1]
  /\ result.location = Strip(FirstGroup(clean_string)[1])
  /\ result.location # <<>>

\* the text the parser works on: the argument trimmed, the week marker that
\* decided the pattern (the odd one when both are there) replaced by a blank,
\* trimmed again
CleanedText(s) ==
  LET t == Strip(s)
  IN IF Contains(t, ODD_MARKER) THEN Strip(Replace(t, ODD_MARKER, <<" ">>))
     ELSE IF Contains(t, EVEN_MARKER) THEN Strip(Replace(t, EVEN_MARKER, <<" ">>))
     ELSE t

PatternOf(s) ==
  IF Contains(s, ODD_MARKER) THEN ODD_WEEKS
  ELSE IF Contains(s, EVEN_MARKER) THEN EVEN_WEEKS
  ELSE EVERY_WEEK

\* the timed-entry branch returned without a teacher and without a room
NothingFound ==
  /\ Returned
  /\ ~Contains(clean_string, TIME_UNDECIDED)
  /\ all_teachers = <<>>
  /\ all_locations = {}

\* C23 as claimed: when the timed-entry branch finds no teacher and no room
\* in a non-empty string, the only teacher is the entire raw string, the
\* location is empty, day and periods are absent and the week pattern is the
\* detected one.
C23_FallbackIsRawString ==
  (NothingFound /\ raw_string # <<>>) =>
    result = Tuple(<<raw_string>>, None, None, None, <<>>, PatternOf(raw_string))

\* C23 amended: when the timed-entry branch finds no teacher and no room and
\* the cleaned text is not empty, the only teacher is the cleaned text (the
\* raw string trimmed, the deciding week marker replaced by a blank, trimmed
\* again), the location is empty, day and periods are absent and the week
\* pattern is the detected one.
C23_FallbackIsCleanedText ==
  (NothingFound /\ CleanedText(raw_string) # <<>>) =>
    result = Tuple(<<CleanedText(raw_string)>>, None, None, None, <<>>,
                   PatternOf(raw_string))

\* the fallback returned a text that had a week marker between two names
C23_Witness ==
  /\ NothingFound
  /\ CleanedText(raw_string) # <<>>
  /\ CleanedText(raw_string) # raw_string
  /\ Contains(raw_string, ODD_MARKER) \/ Contains(raw_string, EVEN_MARKER)
  /\ Len(CleanedText(raw_string)) >= 3
  /\ result.teachers = <<CleanedText(raw_string)>>

\* ------------------------------------------------------------------------
\* get_course_data: the class links of the crawl, one page after the other
\* ------------------------------------------------------------------------

\* the pages of a crawl: one row with a course code at most
CrawlPool == {<<>>} \cup {<<r>> : r \in Rows}

\* lines 100-104: the next class link is opened and its page scraped
ScrapeLink == ScrapeFrom(CrawlPool)

\* line 112: every class link was visited, the end of the crawl is logged
FinishCrawl ==
  /\ save_pc = "idle"
  /\ pages = MaxPages
  /\ save_pc' = "finished"
  /\ UNCHANGED <<database, db_session, scraped, before, pages, outcome,
                 save_exc, pvars, wvars>>

NextCrawl ==
  \/ ScrapeLink
  \/ AddCourses
  \/ UpsertTeachers
  \/ SelectTeachers
  \/ AddLinksAndSchedules
  \/ Commit
  \/ CloseAndLog
  \/ FinishCrawl

\* the crawler is one sequential program: it takes its next step
SpecCrawl == InitSave /\ [][NextCrawl]_vars /\ WF_vars(NextCrawl)

\* C24: a page whose saving fails is logged and dropped, not saved again;
\* the crawl goes on with the next class link, visits every link and logs
\* its end.
C24_CrawlContinues ==
  /\ [][save_pc = "failed" =>
          /\ save_pc' = "idle"
          /\ outcome' = "error"
          /\ scraped' = NoPage
          /\ pages' = pages]_vars
  /\ [][pages' \in {pages, pages + 1}]_vars
  /\ (save_pc = "failed") ~> (save_pc = "finished" /\ pages = MaxPages)

\* the crawl logged its end after the saving of a page had failed, the rows
\* of another page being stored
C24_Witness ==
  /\ save_pc = "finished"
  /\ pages = MaxPages
  /\ outcome = "error"
  /\ save_exc # ""
  /\ database.courses # {}

\* ------------------------------------------------------------------------
\* services/auth_service.py: login, refresh_token, logout_all_devices and
\* logout_current_device, served to concurrent clients.  A request is one
\* step per statement that reaches the database: a SELECT sees the committed
\* rows, a commit writes the rows the session changed or raises.
\* ------------------------------------------------------------------------

MaxRequests == 3

\* the users table: u3 was deactivated
Users == {"u1", "u2", "u3"}

\* model.py line 96: is_active
is_active(u) == u # "u3"

\* core/security.py lines 47-54: the raw token of the n-th stored refresh
\* token is n, its hash is kept in hashed_token
create_refresh_token(n) == [raw_token |-> n, hashed_token |-> n]

\* core/security.py lines 57-58
verify_refresh_token(raw_token, hashed_token_from_db) ==
  raw_token = hashed_token_from_db

\* what a client can present as refresh token: nothing (0), a string that
\* was never issued (-1), or a raw token that was issued
RawTokens == {0, -1} \cup (1..Len(refresh_tokens))

\* lines 268-277: the new RefreshToken row, expires_at being
\* REFRESH_TOKEN_EXPIRE_DAYS after its creation: the rows expire in the
\* order of their creation
RefreshToken(user_id, n) ==
  [user_id |-> user_id, hashed_token |-> create_refresh_token(n).hashed_token,
   expires_at |-> n, revoked |-> FALSE]

\* lines 186-191: revoked == False and expires_at > now
active_tokens ==
  {i \in 1..Len(refresh_tokens) :
     /\ ~refresh_tokens[i].revoked
     /\ refresh_tokens[i].expires_at > now}

\* lines 95-99, 136-139: user_id == current_user.id and revoked == False
unrevoked_tokens_of(u) ==
  {i \in 1..Len(refresh_tokens) :
     /\ refresh_tokens[i].user_id = u
     /\ ~refresh_tokens[i].revoked}

\* lines 193-198, 143-144: the first row whose hash the raw token verifies
find_token(raw_token, possible_tokens) ==
  LET hits == {i \in possible_tokens :
                 verify_refresh_token(raw_token, refresh_tokens[i].hashed_token)}
  IN  IF hits = {} THEN 0 ELSE CHOOSE i \in hits : \A j \in hits : i <= j

\* Fault: only the first of the rows is written.
revoke_first(table, ids) ==
  [i \in 1..Len(table) |->
     IF i \in ids /\ \A j \in ids : i <= j THEN [table[i] EXCEPT !.revoked = TRUE]
     ELSE table[i]]

\* lines 109-114, 145-148, 240-243: revoked = True on each of the rows, as
\* the commit writes them
revoke(table, ids) ==
  [i \in 1..Len(table) |->
     IF i \in ids THEN [table[i] EXCEPT !.revoked = TRUE] ELSE table[i]]

\* the response is sent: the client keeps what it asked and the status
Respond(c, req, code) ==
  auth_req' = [auth_req EXCEPT ![c] =
                 [req EXCEPT !.pc = "idle", !.loaded = <<>>, !.status = code]]

\* a new request of client c
AuthRequest(op, user, target) ==
  [NoRequest EXCEPT !.op = op, !.user = user, !.target = target]

AuthFrame == UNCHANGED <<course_tables, course_selections, serial, table_req,
                         svars, pvars>>

\* lines 61-91: login, until the tokens are issued
login(c) ==
  /\ auth_req[c].pc = "idle"
  /\ requests < MaxRequests
  /\ requests' = requests + 1
  /\ \E u \in Users, verified \in BOOLEAN :
       LET req == AuthRequest("login", u, 0)
       IN  IF ~verified
           THEN Respond(c, req, 401)
           ELSE auth_req' = [auth_req EXCEPT ![c] = [req EXCEPT !.pc = "issue"]]
  /\ UNCHANGED <<refresh_tokens, exchanges, now>>
  /\ AuthFrame

\* lines 176-217: refresh_token, until the token record and its user are found
refresh_token(c) ==
  /\ auth_req[c].pc = "idle"
  /\ requests < MaxRequests
  /\ requests' = requests + 1
  /\ \E raw_refresh_token \in RawTokens :
       LET found_token_record == find_token(raw_refresh_token, active_tokens)
           req == AuthRequest("refresh_token", "", raw_refresh_token)
       IN  IF raw_refresh_token = 0 \/ found_token_record = 0
           THEN Respond(c, req, 401)
           ELSE auth_req' = [auth_req EXCEPT ![c] =
                  [req EXCEPT !.user = refresh_tokens[found_token_record].user_id,
                              !.loaded = {found_token_record},
                              !.pc = "revoke"]]
  /\ UNCHANGED <<refresh_tokens, exchanges, now>>
  /\ AuthFrame

\* lines 219-257 up to the call of _issue_tokens: the record is revoked and
\* committed; for an inactive user the request ends there with 401, whether
\* or not the commit went through
RevokeAndCommit(c) ==
  LET req == auth_req[c]
  IN  /\ req.pc = "revoke"
      /\ \E committed \in BOOLEAN :
           /\ refresh_tokens' = IF committed THEN revoke(refresh_tokens, req.loaded)
                                ELSE refresh_tokens
           /\ IF ~is_active(req.user) THEN Respond(c, req, 401)
              ELSE IF committed
                   THEN auth_req' = [auth_req EXCEPT ![c] = [req EXCEPT !.pc = "issue"]]
                   ELSE Respond(c, req, 500)
      /\ UNCHANGED <<exchanges, now, requests>>
      /\ AuthFrame

\* lines 259-294 (_issue_tokens) and the handlers around it (lines 81-91,
\* 247-257): the new row is committed and the tokens are returned, or the
\* commit raises and the request ends with 500
IssueTokens(c) ==
  LET req == auth_req[c]
      n == Len(refresh_tokens) + 1
  IN  /\ req.pc = "issue"
      /\ \E committed \in BOOLEAN :
           IF committed
           THEN /\ refresh_tokens' = Append(refresh_tokens, RefreshToken(req.user, n))
                /\ exchanges' =
                     Append(IF req.op = "refresh_token"
                            THEN [exchanges EXCEPT ![req.target] = @ + 1]
                            ELSE exchanges, 0)
                /\ Respond(c, req, 200)
           ELSE /\ UNCHANGED <<refresh_tokens, exchanges>>
                /\ Respond(c, req, 500)
      /\ UNCHANGED <<now, requests>>
      /\ AuthFrame

\* lines 93-105: logout_all_devices, the rows are selected
logout_all_devices(c) ==
  /\ auth_req[c].pc = "idle"
  /\ requests < MaxRequests
  /\ requests' = requests + 1
  /\ \E current_user \in Users :
       LET req == [AuthRequest("logout_all_devices", current_user, 0)
                     EXCEPT !.stored = Len(refresh_tokens)]
       IN  IF unrevoked_tokens_of(current_user) = {}
           THEN Respond(c, req, 200)
           ELSE auth_req' = [auth_req EXCEPT ![c] =
                  [req EXCEPT !.loaded = unrevoked_tokens_of(current_user),
                              !.pc = "revoke_all"]]
  /\ UNCHANGED <<refresh_tokens, exchanges, now>>
  /\ AuthFrame

\* lines 107-128: every selected row is revoked in one commit
RevokeAllAndCommit(c) ==
  LET req == auth_req[c]
  IN  /\ req.pc = "revoke_all"
      /\ \E committed \in BOOLEAN :
           IF committed
           THEN /\ refresh_tokens' = revoke(refresh_tokens, req.loaded)
                /\ Respond(c, req, 200)
           ELSE /\ UNCHANGED refresh_tokens
                /\ Respond(c, req, 500)
      /\ UNCHANGED <<exchanges, now, requests>>
      /\ AuthFrame

\* lines 130-144, 165-172: logout_current_device, the user's rows are
\* selected and the presented token looked up among them
logout_current_device(c) ==
  /\ auth_req[c].pc = "idle"
  /\ requests < MaxRequests
  /\ requests' = requests + 1
  /\ \E current_user \in Users, raw_refresh_token \in RawTokens :
       LET token_record ==
             find_token(raw_refresh_token, unrevoked_tokens_of(current_user))
           req == AuthRequest("logout_current_device", current_user,
                              raw_refresh_token)
       IN  IF token_record = 0
           THEN Respond(c, req, 400)
           ELSE auth_req' = [auth_req EXCEPT ![c] =
                  [req EXCEPT !.loaded = {token_record}, !.pc = "revoke_one"]]
  /\ UNCHANGED <<refresh_tokens, exchanges, now>>
  /\ AuthFrame

\* lines 145-163: the row is revoked and committed
RevokeOneAndCommit(c) ==
  LET req == auth_req[c]
  IN  /\ req.pc = "revoke_one"
      /\ \E committed \in BOOLEAN :
           IF committed
           THEN /\ refresh_tokens' = revoke(refresh_tokens, req.loaded)
                /\ Respond(c, req, 200)
           ELSE /\ UNCHANGED refresh_tokens
                /\ Respond(c, req, 500)
      /\ UNCHANGED <<exchanges, now, requests>>
      /\ AuthFrame

\* lines 189, 274-275: time passes the expires_at of the oldest row that
\* has not expired
Expire ==
  /\ now < Len(refresh_tokens)
  /\ now' = now + 1
  /\ UNCHANGED <<refresh_tokens, exchanges, auth_req, requests>>
  /\ AuthFrame

NextAuth ==
  \/ \E c \in Clients : login(c)
  \/ \E c \in Clients : refresh_token(c)
  \/ \E c \in Clients : RevokeAndCommit(c)
  \/ \E c \in Clients : IssueTokens(c)
  \/ \E c \in Clients : logout_all_devices(c)
  \/ \E c \in Clients : RevokeAllAndCommit(c)
  \/ \E c \in Clients : logout_current_device(c)
  \/ \E c \in Clients : RevokeOneAndCommit(c)
  \/ Expire

SpecAuth == InitSave /\ [][NextAuth]_vars

\* ------------------------------------------------------------------------
\* Properties of the auth service
\* ------------------------------------------------------------------------

\* a request for one of these operations arrives from client c in this
\* step; where the step leaves the client's record as it was (the same
\* request, answered as before), the handler itself decides
AuthArrives(c, ops, Handler) ==
  /\ auth_req[c].pc = "idle"
  /\ requests' = requests + 1
  /\ auth_req'[c].op \in ops
  /\ \A d \in Clients \ {c} : auth_req'[d] = auth_req[d]
  /\ auth_req'[c] # auth_req[c] \/ Handler

\* the request of client c for this operation is answered in this step
AuthAnswered(c, op, code, Handler) ==
  /\ auth_req'[c].pc = "idle"
  /\ auth_req'[c].op = op
  /\ auth_req'[c].status = code
  /\ auth_req[c].pc # "idle" \/ AuthArrives(c, {op}, Handler)
  /\ \A d \in Clients \ {c} : auth_req'[d] = auth_req[d]

\* C25: a refresh token is exchanged at most once: of the refresh_token
\* requests that present it, however they interleave, at most one returns
\* new tokens, and a request that presents it after an exchange gets 401.
C25_ExchangedAtMostOnce ==
  /\ [](\A t \in 1..Len(exchanges) : exchanges[t] <= 1)
  /\ [][\A c \in Clients :
          (/\ AuthArrives(c, {"refresh_token"}, refresh_token(c))
           /\ auth_req'[c].target \in 1..Len(exchanges)
           /\ exchanges[auth_req'[c].target] >= 1) =>
            auth_req'[c].status = 401]_vars

\* C26: a refresh_token call of an active user that ends with 500 while the
\* new token is issued leaves the presented token unrevoked, as it was when
\* the call began (no other client sending anything meanwhile).
C26_AllOrNothing ==
  [][\A c \in Clients :
       (/\ auth_req[c].pc = "issue"
        /\ auth_req[c].op = "refresh_token"
        /\ is_active(auth_req[c].user)
        /\ AuthAnswered(c, "refresh_token", 500, FALSE)
        /\ \A d \in Clients \ {c} : auth_req[d] = NoRequest) =>
         /\ ~refresh_tokens'[auth_req[c].target].revoked
         /\ refresh_tokens' = refresh_tokens]_vars

\* the refresh tokens of user u that were stored when no more than n rows
\* existed
StoredFor(u, n) ==
  {t \in 1..Len(refresh_tokens) : t <= n /\ refresh_tokens[t].user_id = u}

\* C28: when logout_all_devices has succeeded for a user, every refresh
\* token stored for that user before the call is revoked and the tokens of
\* the other users are as they were; a refresh_token request that presents
\* one of those tokens afterwards gets 401; and a revoked token stays
\* revoked whatever is called.
C28_LogoutAllRevokes ==
  /\ [][\A c \in Clients :
          AuthAnswered(c, "logout_all_devices", 200, logout_all_devices(c)) =>
            /\ \A t \in StoredFor(auth_req'[c].user, auth_req'[c].stored) :
                 refresh_tokens'[t].revoked
            /\ \A t \in 1..Len(refresh_tokens) :
                 refresh_tokens[t].user_id # auth_req'[c].user =>
                   refresh_tokens'[t] = refresh_tokens[t]
            /\ Len(refresh_tokens') = Len(refresh_tokens)]_vars
  /\ [][\A c, d \in Clients :
          (/\ AuthArrives(c, {"refresh_token"}, refresh_token(c))
           /\ auth_req[d].op = "logout_all_devices"
           /\ auth_req[d].pc = "idle"
           /\ auth_req[d].status = 200
           /\ auth_req'[c].target \in StoredFor(auth_req[d].user, auth_req[d].stored)) =>
            auth_req'[c].status = 401]_vars
  /\ [][\A t \in 1..Len(refresh_tokens) :
          refresh_tokens[t].revoked =>
            /\ t <= Len(refresh_tokens')
            /\ refresh_tokens'[t].revoked]_vars

\* logout_all_devices revoked the tokens of a user, and a request that
\* then presented one of them, not expired, was answered with 401
C28_Witness ==
  \E c, d \in Clients :
    /\ auth_req[d].op = "logout_all_devices"
    /\ auth_req[d].pc = "idle"
    /\ auth_req[d].status = 200
    /\ auth_req[c].op = "refresh_token"
    /\ auth_req[c].pc = "idle"
    /\ auth_req[c].status = 401
    /\ auth_req[c].target \in StoredFor(auth_req[d].user, auth_req[d].stored)
    /\ refresh_tokens[auth_req[c].target].revoked
    /\ refresh_tokens[auth_req[c].target].expires_at > now
    /\ exchanges[auth_req[c].target] = 0

\* ------------------------------------------------------------------------
\* The course tables and their selections: api/dependencies.py,
\* api/routers/course_table.py, api/routers/course_selection.py,
\* services/course_table_service.py, services/course_selection_service.py.
\* As above, a request is one step for what it reads and one step for its
\* commit, and the requests of the clients interleave.
\* ------------------------------------------------------------------------

\* the users that own course tables
Owners == {"u1", "u2"}

\* the courses the crawler stored, of two semesters
Courses ==
  {[id |-> "c1", academic_year_semester |-> "113-1"],
   [id |-> "c2", academic_year_semester |-> "113-2"]}

Semesters == {"113-1", "113-2"}

\* the course_id of a payload: a stored course or an id no course has
CourseIds == {"c1", "c2", "c0"}

\* the ids a request can name: one that was given out, or one that was not (0)
TableIds == 0..serial.course_tables

SelectionIds == 0..serial.course_selections

\* .first() of a query: a one-element tuple, or None
first_of(rows) == IF rows = {} THEN None ELSE <<CHOOSE r \in rows : TRUE>>

\* Fault: the owner is not part of the query.
get_any_course_table(table_id, current_user) ==
  first_of({t \in course_tables : t.id = table_id})

\* api/dependencies.py lines 41-67 (the 404 is raised by the caller below)
get_owned_course_table(table_id, current_user) ==
  first_of({t \in course_tables : t.id = table_id /\ t.user_id = current_user})

\* api/dependencies.py lines 70-109
get_owned_course_selection(selection_id, current_user) ==
  LET selection == first_of({s \in course_selections : s.id = selection_id})
  IN  IF selection = None THEN None
      ELSE IF get_owned_course_table(selection[1].course_table_id, current_user) = None
           THEN None
           ELSE selection

\* Fault: the semesters are not compared.
semester_unchecked(course_to_add, course_table) == TRUE

\* course_selection_service.py line 33
semester_matches(course_to_add, course_table) ==
  course_to_add.academic_year_semester = course_table.academic_year_semester

\* course_selection_service.py lines 48-54
existing_in_current_table(course_table, course_id) ==
  first_of({s \in course_selections :
              s.course_table_id = course_table.id /\ s.course_id = course_id})

\* the response is sent: the client keeps what it asked and the status
TableRespond(c, req, code) ==
  table_req' = [table_req EXCEPT ![c] =
                  [req EXCEPT !.pc = "idle", !.loaded = <<>>, !.status = code]]

\* the request goes on to its commit with the row it loaded
TableProceed(c, req, row, at) ==
  table_req' = [table_req EXCEPT ![c] = [req EXCEPT !.loaded = row, !.pc = at]]

TableRequest(op, user, target) ==
  [NoRequest EXCEPT !.op = op, !.user = user, !.target = target]

\* a request is received by an idle client
Receive(c) ==
  /\ table_req[c].pc = "idle"
  /\ requests < MaxRequests
  /\ requests' = requests + 1

TableFrame == UNCHANGED <<refresh_tokens, exchanges, now, auth_req, svars, pvars>>

\* routers/course_table.py lines 24-56, course_table_service.py lines 14-44
create_course_table(c) ==
  /\ Receive(c)
  /\ \E current_user \in Owners, academic_year_semester \in Semesters,
        committed \in BOOLEAN :
       LET id == serial.course_tables + 1
           req == TableRequest("create_course_table", current_user, 0)
       IN  IF committed
           THEN /\ course_tables' = course_tables \cup
                     {[id |-> id, name |-> "n1", user_id |-> current_user,
                       academic_year_semester |-> academic_year_semester]}
                /\ serial' = [serial EXCEPT !.course_tables = id]
                /\ TableRespond(c, [req EXCEPT !.target = id], 200)
           ELSE /\ UNCHANGED <<course_tables, serial>>
                /\ TableRespond(c, req, 500)
  /\ UNCHANGED course_selections
  /\ TableFrame

\* routers/course_table.py lines 92-104
get_course_table(c) ==
  /\ Receive(c)
  /\ \E current_user \in Owners, table_id \in TableIds :
       LET req == TableRequest("get_course_table", current_user, table_id)
       IN  IF get_owned_course_table(table_id, current_user) = None
           THEN TableRespond(c, req, 404)
           ELSE TableRespond(c, req, 200)
  /\ UNCHANGED <<course_tables, course_selections, serial>>
  /\ TableFrame

\* routers/course_table.py lines 107-133, course_table_service.py lines
\* 72-95: the table is looked up and the new name compared
update_course_table(c) ==
  /\ Receive(c)
  /\ \E current_user \in Owners, table_id \in TableIds,
        name \in {None, <<"n2">>} :
       LET req == [TableRequest("update_course_table", current_user, table_id)
                     EXCEPT !.payload = name]
           table == get_owned_course_table(table_id, current_user)
       IN  IF table = None THEN TableRespond(c, req, 404)
           ELSE IF name = None \/ name[1] = table[1].name
                THEN TableRespond(c, req, 200)
                ELSE TableProceed(c, req, table, "update_table")
  /\ UNCHANGED <<course_tables, course_selections, serial>>
  /\ TableFrame

\* course_table_service.py lines 97-115: the UPDATE of the name; it raises
\* when the row is gone
CommitTableUpdate(c) ==
  LET req == table_req[c]
      rows == {t \in course_tables : t.id = req.loaded[1].id}
  IN  /\ req.pc = "update_table"
      /\ \E committed \in BOOLEAN :
           IF committed /\ rows # {}
           THEN /\ course_tables' =
                     {IF t \in rows THEN [t EXCEPT !.name = req.payload[1]] ELSE t :
                        t \in course_tables}
                /\ TableRespond(c, req, 200)
           ELSE /\ UNCHANGED course_tables
                /\ TableRespond(c, req, 500)
      /\ UNCHANGED <<course_selections, serial, requests>>
      /\ TableFrame

\* routers/course_table.py lines 136-161: the table is looked up
delete_course_table(c) ==
  /\ Receive(c)
  /\ \E current_user \in Owners, table_id \in TableIds :
       LET req == TableRequest("delete_course_table", current_user, table_id)
           table == get_owned_course_table(table_id, current_user)
       IN  IF table = None THEN TableRespond(c, req, 404)
           ELSE TableProceed(c, req, table, "delete_table")
  /\ UNCHANGED <<course_tables, course_selections, serial>>
  /\ TableFrame

\* course_table_service.py lines 117-134, model.py lines 38, 84-86: the
\* flush detaches the selections of the table, whose course_table_id cannot
\* be NULL, so the DELETE of a table that has selections raises
CommitTableDelete(c) ==
  LET req == table_req[c]
      held == {s \in course_selections : s.course_table_id = req.loaded[1].id}
  IN  /\ req.pc = "delete_table"
      /\ \E committed \in BOOLEAN :
           IF committed /\ held = {}
           THEN /\ course_tables' =
                     {t \in course_tables : t.id # req.loaded[1].id}
                /\ TableRespond(c, req, 200)
           ELSE /\ UNCHANGED course_tables
                /\ TableRespond(c, req, 500)
      /\ UNCHANGED <<course_selections, serial, requests>>
      /\ TableFrame

\* routers/course_selection.py lines 23-55, course_selection_service.py
\* lines 14-60: the table, the course and an existing selection are looked up
add_selection(c) ==
  /\ Receive(c)
  /\ \E current_user \in Owners, table_id \in TableIds, course_id \in CourseIds :
       LET note == None
           req == [TableRequest("add_selection", current_user, table_id)
                     EXCEPT !.payload = <<course_id, note>>]
           course_table == get_owned_course_table(table_id, current_user)
           course_to_add == first_of({k \in Courses : k.id = course_id})
       IN  IF course_table = None THEN TableRespond(c, req, 404)
           ELSE IF course_to_add = None THEN TableRespond(c, req, 404)
           ELSE IF ~semester_matches(course_to_add[1], course_table[1])
                THEN TableRespond(c, req, 400)
           ELSE IF existing_in_current_table(course_table[1], course_id) # None
                THEN TableRespond(c, req, 400)
           ELSE TableProceed(c, req, course_table, "add_selection")
  /\ UNCHANGED <<course_tables, course_selections, serial>>
  /\ TableFrame

\* course_selection_service.py lines 62-84: the INSERT; it raises when the
\* table is gone (foreign key)
CommitSelection(c) ==
  LET req == table_req[c]
      id == serial.course_selections + 1
  IN  /\ req.pc = "add_selection"
      /\ \E committed \in BOOLEAN :
           IF committed /\ \E t \in course_tables : t.id = req.loaded[1].id
           THEN /\ course_selections' = course_selections \cup
                     {[id |-> id, course_table_id |-> req.loaded[1].id,
                       course_id |-> req.payload[1], note |-> req.payload[2]]}
                /\ serial' = [serial EXCEPT !.course_selections = id]
                /\ TableRespond(c, req, 200)
           ELSE /\ UNCHANGED <<course_selections, serial>>
                /\ TableRespond(c, req, 500)
      /\ UNCHANGED <<course_tables, requests>>
      /\ TableFrame

\* routers/course_selection.py lines 58-87, course_selection_service.py
\* lines 86-108
get_selections_for_table(c) ==
  /\ Receive(c)
  /\ \E current_user \in Owners, table_id \in TableIds :
       LET req == TableRequest("get_selections_for_table", current_user, table_id)
       IN  IF get_owned_course_table(table_id, current_user) = None
           THEN TableRespond(c, req, 404)
           ELSE TableRespond(c, req, 200)
  /\ UNCHANGED <<course_tables, course_selections, serial>>
  /\ TableFrame

\* routers/course_selection.py lines 90-116: the selection is looked up
update_selection(c) ==
  /\ Receive(c)
  /\ \E current_user \in Owners, selection_id \in SelectionIds,
        note \in {None, <<"y">>} :
       LET req == [TableRequest("update_selection", current_user, selection_id)
                     EXCEPT !.payload = note]
           selection == get_owned_course_selection(selection_id, current_user)
       IN  IF selection = None THEN TableRespond(c, req, 404)
           ELSE TableProceed(c, req, selection, "update_selection")
  /\ UNCHANGED <<course_tables, course_selections, serial>>
  /\ TableFrame

\* course_selection_service.py lines 129-163: the note is set when the
\* payload has one, commit and refresh; they raise when the row is gone
CommitSelectionUpdate(c) ==
  LET req == table_req[c]
      rows == {s \in course_selections : s.id = req.loaded[1].id}
  IN  /\ req.pc = "update_selection"
      /\ \E committed \in BOOLEAN :
           IF committed /\ rows # {}
           THEN /\ course_selections' =
                     {IF s \in rows /\ req.payload # None
                      THEN [s EXCEPT !.note = req.payload] ELSE s :
                        s \in course_selections}
                /\ TableRespond(c, req, 200)
           ELSE /\ UNCHANGED course_selections
                /\ TableRespond(c, req, 500)
      /\ UNCHANGED <<course_tables, serial, requests>>
      /\ TableFrame

\* routers/course_selection.py lines 119-144: the selection is looked up
delete_selection(c) ==
  /\ Receive(c)
  /\ \E current_user \in Owners, selection_id \in SelectionIds :
       LET req == TableRequest("delete_selection", current_user, selection_id)
           selection == get_owned_course_selection(selection_id, current_user)
       IN  IF selection = None THEN TableRespond(c, req, 404)
           ELSE TableProceed(c, req, selection, "delete_selection")
  /\ UNCHANGED <<course_tables, course_selections, serial>>
  /\ TableFrame

\* course_selection_service.py lines 110-127: the DELETE
CommitSelectionDelete(c) ==
  LET req == table_req[c]
  IN  /\ req.pc = "delete_selection"
      /\ \E committed \in BOOLEAN :
           IF committed
           THEN /\ course_selections' =
                     {s \in course_selections : s.id # req.loaded[1].id}
                /\ TableRespond(c, req, 200)
           ELSE /\ UNCHANGED course_selections
                /\ TableRespond(c, req, 500)
      /\ UNCHANGED <<course_tables, serial, requests>>
      /\ TableFrame

NextTables ==
  \/ \E c \in Clients : create_course_table(c)
  \/ \E c \in Clients : get_course_table(c)
  \/ \E c \in Clients : update_course_table(c)
  \/ \E c \in Clients : CommitTableUpdate(c)
  \/ \E c \in Clients : delete_course_table(c)
  \/ \E c \in Clients : CommitTableDelete(c)
  \/ \E c \in Clients : add_selection(c)
  \/ \E c \in Clients : CommitSelection(c)
  \/ \E c \in Clients : get_selections_for_table(c)
  \/ \E c \in Clients : update_selection(c)
  \/ \E c \in Clients : CommitSelectionUpdate(c)
  \/ \E c \in Clients : delete_selection(c)
  \/ \E c \in Clients : CommitSelectionDelete(c)

SpecTables == InitSave /\ [][NextTables]_vars

\* ------------------------------------------------------------------------
\* Properties of the course tables and selections
\* ------------------------------------------------------------------------

\* a request for one of these operations arrives from client c in this
\* step; where the step leaves the client's record as it was (the same
\* request, answered as before), the handler itself decides
Arrives(c, ops, Handler) ==
  /\ table_req[c].pc = "idle"
  /\ requests' = requests + 1
  /\ table_req'[c].op \in ops
  /\ \A d \in Clients \ {c} : table_req'[d] = table_req[d]
  /\ table_req'[c] # table_req[c] \/ Handler

\* the request of client c for this operation is answered in this step
Answered(c, op, code, Handler) ==
  /\ table_req'[c].pc = "idle"
  /\ table_req'[c].op = op
  /\ table_req'[c].status = code
  /\ table_req[c].pc # "idle" \/ Arrives(c, {op}, Handler)
  /\ \A d \in Clients \ {c} : table_req'[d] = table_req[d]

\* C27: however add_selection requests interleave, a course table holds a
\* course once at most (one course_selections row per course_table_id and
\* course_id), and adding a course the table holds already is answered with
\* 400 and changes nothing.
C27_NoDuplicateSelection ==
  /\ [](\A s1, s2 \in course_selections :
          (s1.course_table_id = s2.course_table_id /\ s1.course_id = s2.course_id)
            => s1 = s2)
  /\ [][\A c \in Clients :
          (table_req[c].pc = "idle" /\ table_req'[c].pc = "add_selection") =>
            existing_in_current_table(table_req'[c].loaded[1],
                                      table_req'[c].payload[1]) = None]_vars
  /\ [][\A c \in Clients :
          Answered(c, "add_selection", 400, add_selection(c)) =>
            UNCHANGED <<course_tables, course_selections>>]_vars

\* the course with this id, or None
course_of(course_id) == first_of({k \in Courses : k.id = course_id})

\* the request of client c names a table its user owns and a stored course
\* of another semester
Mismatching(req) ==
  LET course_table == get_owned_course_table(req.target, req.user)
      course_to_add == course_of(req.payload[1])
  IN  /\ course_table # None
      /\ course_to_add # None
      /\ course_to_add[1].academic_year_semester
           # course_table[1].academic_year_semester

\* C29: whatever is called on course tables and selections, every stored
\* selection is of a course whose academic_year_semester is that of the
\* course table holding it; add_selection of a course of another semester
\* is answered with 400 and stores nothing.
C29_SemesterMatches ==
  /\ [](\A s \in course_selections :
          \E t \in course_tables, k \in Courses :
            /\ t.id = s.course_table_id
            /\ k.id = s.course_id
            /\ k.academic_year_semester = t.academic_year_semester)
  /\ [][\A c \in Clients :
          (/\ Arrives(c, {"add_selection"}, add_selection(c))
           /\ Mismatching(table_req'[c])) =>
            /\ table_req'[c].pc = "idle"
            /\ table_req'[c].status = 400
            /\ UNCHANGED <<course_tables, course_selections>>]_vars

\* a table holds a selection, and a course of the other semester was
\* refused for it
C29_Witness ==
  \E c \in Clients, t \in course_tables, s \in course_selections :
    /\ s.course_table_id = t.id
    /\ table_req[c].op = "add_selection"
    /\ table_req[c].pc = "idle"
    /\ table_req[c].status = 400
    /\ table_req[c].target = t.id
    /\ Mismatching(table_req[c])

\* of these tables, those of the users other than u, and of these
\* selections, those they hold
OthersTables(tables, u) == {t \in tables : t.user_id # u}

OthersSelections(tables, selections, u) ==
  {s \in selections : \E t \in OthersTables(tables, u) : t.id = s.course_table_id}

\* a request that names a course table arrives from client c
NamesTable(c) ==
  Arrives(c, {"get_course_table", "update_course_table", "delete_course_table",
              "add_selection", "get_selections_for_table"},
          \/ get_course_table(c)
          \/ update_course_table(c)
          \/ delete_course_table(c)
          \/ add_selection(c)
          \/ get_selections_for_table(c))

\* a request that names a selection arrives from client c
NamesSelection(c) ==
  Arrives(c, {"update_selection", "delete_selection"},
          update_selection(c) \/ delete_selection(c))

====
